---- MODULE Spec2Model ----
(***************************************************************************)
(* Blogging API (Express + Mongoose): signup/login with one-hour JWTs and  *)
(* create/read/update/delete of blogs with draft/published states.         *)
(*                                                                         *)
(* Text values of requests and documents (names, emails, passwords,        *)
(* titles, tags, bodies, query parameters) are sequences of one-character  *)
(* strings, so that lower-casing, trimming, regular-expression tests and   *)
(* parseInt are computed, not assumed.  Response messages are constants    *)
(* of the code and stay TLA+ strings.                                      *)
(*                                                                         *)
(* A request handler is an async function: the steps between two awaits    *)
(* on the database run without interleaving, so every handler is one       *)
(* action per database round trip.  A request that is between two round    *)
(* trips sits in a slot of inflight.                                       *)
(***************************************************************************)
EXTENDS Integers, Sequences, FiniteSets, TLC

\* ------------------------------------------------------------------ bounds
MaxUsers    == 2   \* user documents the store may hold
MaxTokens   == 2   \* tokens issued by signup and login
MaxHours    == 1   \* the clock runs over instants around 0h .. MaxHours h
MaxInflight == 2   \* requests that may be between two database round trips
MaxBlogInflight == 1   \* ... of the blog routes
MaxBlogs    == 1   \* blog documents ever created (ownership specification)
MaxListBlogs == 2  \* blog documents ever created (listing and creation specifications)
MaxReads    == 1   \* successful single-blog fetches per blog
MaxViews    == 3   \* ... in the read-count specifications
MaxWords    == 401 \* words of the longest text given to the estimator
MaxPageBlogs == 14 \* blogs of the largest store of the pagination specification
MaxSortBlogs == 4  \* ... of the ordering and own-listing specifications

\* --------------------------------------------------------------- constants
ExpiresIn  == 3600   \* "1h" of generateToken, in seconds (jwt exp - iat)
MinPasswordLength == 6

\* ------------------------------------------------------------ text helpers
Whitespace == {" ", "\t", "\n"}

\* a request field or document path that is not there
Undefined == <<"undefined">>

\* a value of a JSON body that is not a string is a sequence led by the
\* name of its type, followed by the characters of its toString()
TypeTags == {"undefined", "null", "number", "boolean"}
FortyTwo == <<"number", "4", "2">>

\* typeof v === "string"
IsString(v) == v = <<>> \/ Head(v) \notin TypeTags

\* a value that `!x` treats as missing: undefined, null, the empty string,
\* 0 and false
Falsy(s) ==
  s \in {Undefined, <<"null">>, <<>>, <<"number", "0">>,
         <<"boolean", "f", "a", "l", "s", "e">>}

\* the cast of a String path of a schema: undefined and null stay, a
\* number or a boolean becomes its toString()
CastString(v) == IF IsString(v) \/ v \in {Undefined, <<"null">>} THEN v ELSE Tail(v)

LowerChar(c) ==
  CASE c = "A" -> "a"
    [] c = "B" -> "b"
    [] c = "X" -> "x"
    [] OTHER   -> c

RECURSIVE TrimLeft(_)
TrimLeft(s) ==
  IF s = <<>> \/ Head(s) \notin Whitespace THEN s ELSE TrimLeft(Tail(s))

RECURSIVE TrimRight(_)
TrimRight(s) ==
  IF s = <<>> \/ s[Len(s)] \notin Whitespace THEN s
  ELSE TrimRight(SubSeq(s, 1, Len(s) - 1))

\* String.prototype.trim, and the `trim: true` setter of a schema path
Trim(s) == TrimRight(TrimLeft(s))

\* String.prototype.toLowerCase
ToLowerCase(s) == [i \in DOMAIN s |-> LowerChar(s[i])]

\* /^\S+@\S+\.\S+$/.test(s)
EmailRegexTest(s) ==
  /\ \A i \in DOMAIN s : s[i] \notin Whitespace
  /\ \E i, j \in DOMAIN s :
       /\ 1 < i /\ i + 1 < j /\ j < Len(s)
       /\ s[i] = "@" /\ s[j] = "."

Digits == {"0", "1", "2", "3", "4", "5", "6", "7", "8", "9"}

DigitVal(c) ==
  CASE c = "0" -> 0 [] c = "1" -> 1 [] c = "2" -> 2 [] c = "3" -> 3 [] c = "4" -> 4
    [] c = "5" -> 5 [] c = "6" -> 6 [] c = "7" -> 7 [] c = "8" -> 8 [] c = "9" -> 9

RECURSIVE ParseDigits(_, _)
ParseDigits(s, acc) ==
  IF s = <<>> \/ Head(s) \notin Digits THEN acc
  ELSE ParseDigits(Tail(s), acc * 10 + DigitVal(Head(s)))

NaN == [nan |-> TRUE, val |-> 0]

\* parseInt(s): leading whitespace, an optional sign, then the leading
\* decimal digits; NaN when there is none (undefined included)
ParseInt(s) ==
  LET t    == TrimLeft(s)
      sign == IF t # <<>> /\ Head(t) = "-" THEN -1 ELSE 1
      u    == IF t # <<>> /\ Head(t) \in {"-", "+"} THEN Tail(t) ELSE t
  IN IF u = <<>> \/ Head(u) \notin Digits THEN NaN
     ELSE [nan |-> FALSE, val |-> sign * ParseDigits(u, 0)]

\* `parseInt(x) || d`: NaN and 0 are falsy
ParseIntOr(s, d) == LET p == ParseInt(s) IN IF p.nan \/ p.val = 0 THEN d ELSE p.val

\* Math.ceil(a / b) for integers a and b # 0
CeilDiv(a, b) == IF b > 0 THEN -((-a) \div b) ELSE -(a \div (-b))

Min(a, b) == IF a < b THEN a ELSE b
Abs(a) == IF a < 0 THEN -a ELSE a

\* new RegExp(pattern, 'i').test(text) for a pattern of literal characters
\* and the metacharacter `.` (any character)
RegexTest(pattern, text) ==
  \E k \in 0..(Len(text) - Len(pattern)) :
    \A i \in 1..Len(pattern) :
      pattern[i] = "." \/ LowerChar(pattern[i]) = LowerChar(text[k + i])

\* ------------------------------------------------------------ reading time
WordsPerMinute == 200

\* text.trim().split(/\s+/).length: one more than the number of whitespace
\* runs inside the trimmed text ("" splits into [""], length 1)
WordCount(text) ==
  LET t == Trim(text) IN
  1 + Cardinality({i \in 1..(Len(t) - 1) : t[i] \in Whitespace /\ t[i + 1] \notin Whitespace})

\* (variant) the quotient rounded down
CalculateReadingTime_Floor(text) ==
  IF Falsy(text) \/ ~IsString(text) THEN 0
  ELSE LET readingTime == WordCount(text) \div WordsPerMinute IN
       IF readingTime = 0 THEN 1 ELSE readingTime

\* calculateReadingTime(text)
CalculateReadingTime(text) ==
  IF Falsy(text) \/ ~IsString(text) THEN 0
  ELSE LET readingTime == CeilDiv(WordCount(text), WordsPerMinute) IN
       IF readingTime = 0 THEN 1 ELSE readingTime

\* a text of n words "w" separated by single spaces
Words(n) == [i \in 1..(2 * n - 1) |-> IF i % 2 = 1 THEN "w" ELSE " "]

\* ------------------------------------------------------------------ bcrypt
Salts == {"s1", "s2"}

\* bcrypt.hash(password, salt): an opaque value that carries its salt and
\* is a function of (salt, password); it is never equal to the password
BcryptHash(password, salt) == <<"$2a$", salt>> \o password

\* bcrypt.compare(candidate, hash): re-hash with the salt stored in the hash
BcryptCompare(candidate, hash) == hash = BcryptHash(candidate, hash[2])

\* ------------------------------------------------------------------- users
\* userSchema.pre('save'): a new document has its password modified, so
\* the plaintext is replaced by the salted hash before the insert
PreSaveUser(doc, salt) == [doc EXCEPT !.password = BcryptHash(doc.password, salt)]

\* (variant) a toJSON that keeps every path
UserToJSON_Keep(u) == u

\* userSchema.methods.toJSON: the document without its password
UserToJSON(u) == [f \in DOMAIN u \ {"password"} |-> u[f]]

\* User.findOne({ email }) over the stored documents (a sequence: users are
\* never deleted, a user's _id is its position)
FindUserByEmail(us, email) == {i \in DOMAIN us : us[i].email = email}

\* (variant) a collection without the unique index
EmailIndexAllows_NoIndex(us, email) == TRUE

\* the unique index on email: an insert of a second document with the same
\* stored email is refused with duplicate key error 11000
EmailIndexAllows(us, email) == \A i \in DOMAIN us : us[i].email # email

\* ------------------------------------------------------------------ tokens
JwtSecret == "JWT_SECRET"

\* (variant) a token that lives two hours
GenerateToken_TwoHours(userId, t) ==
  [userId |-> userId, iat |-> t, exp |-> t + 2 * ExpiresIn, sig |-> JwtSecret]

\* jwt.sign({ userId }, secret, { expiresIn: '1h' }) at clock value t
GenerateToken(userId, t) ==
  [userId |-> userId, iat |-> t, exp |-> t + ExpiresIn, sig |-> JwtSecret]

\* a string that is not a JWT at all
GarbageToken == [malformed |-> TRUE]

\* jwt.verify(token, secret) at clock value t: the decoded payload or the
\* name of the error it throws
JwtVerify(token, t) ==
  IF "sig" \notin DOMAIN token THEN [error |-> "JsonWebTokenError"]
  ELSE IF token.sig # JwtSecret THEN [error |-> "JsonWebTokenError"]
  ELSE IF t >= token.exp THEN [error |-> "TokenExpiredError"]
  ELSE [error |-> "none", userId |-> token.userId]

\* --------------------------------------------------------------- responses
NoData == [kind |-> "none"]

\* res.status(status).json({ success, message, data }) sent by function `by`
\* while serving route `op`
Json(op, by, status, message, data) ==
  [op |-> op, by |-> by, status |-> status, success |-> (status < 400),
   message |-> message, data |-> data]

NoResponse == Json("none", "none", 0, "", NoData)

RECURSIVE JoinMessages(_)
\* messages.join(', ')
JoinMessages(ms) ==
  IF Len(ms) = 1 THEN ms[1] ELSE ms[1] \o ", " \o JoinMessages(Tail(ms))

\* the errors a controller passes to next(error)
ValidationError(ms) == [name |-> "ValidationError", code |-> 0, messages |-> ms]
DuplicateKeyError(field) == [name |-> "MongoServerError", code |-> 11000, field |-> field]
CastError == [name |-> "CastError", code |-> 0]
DocumentNotFoundError ==
  [name |-> "DocumentNotFoundError", code |-> 0, message |-> "No document found for query"]
TypeError == [name |-> "TypeError", code |-> 0, message |-> "Cannot read properties of undefined"]
MongoServerError(msg) == [name |-> "MongoServerError", code |-> 2, message |-> msg]

\* errorHandler(err, req, res, next): status and message of its response
ErrorStatus(err) ==
  IF err.name = "CastError" THEN 400
  ELSE IF err.code = 11000 THEN 400
  ELSE IF err.name = "ValidationError" THEN 400
  ELSE 500

ErrorMessage(err) ==
  IF err.name = "CastError" THEN "Invalid ID format"
  ELSE IF err.code = 11000 THEN err.field \o " already exists"
  ELSE IF err.name = "ValidationError" THEN JoinMessages(err.messages)
  ELSE err.message

ErrorHandler(op, err) == Json(op, "errorHandler", ErrorStatus(err), ErrorMessage(err), NoData)

\* the ERROR-level entries written on the way to a response: a response
\* sent by errorHandler was reached through the catch block of the handler
\* (logger.error('<handler> error', error); next(error)) and the
\* logger.error of errorHandler itself; the responses that the handlers and
\* authenticate send themselves are written without a call of logger.error
LoggedErrors(r) ==
  LET label == CASE r.op = "signup" -> "Signup error"
                 [] r.op = "login" -> "Login error"
                 [] r.op = "getCurrentUser" -> "Get current user error"
                 [] r.op = "createBlog" -> "Create blog error"
                 [] r.op = "getAllPublishedBlogs" -> "Get all published blogs error"
                 [] r.op = "getBlogById" -> "Get blog by ID error"
                 [] r.op = "getUserBlogs" -> "Get user blogs error"
                 [] r.op = "updateBlog" -> "Update blog error"
                 [] r.op = "deleteBlog" -> "Delete blog error"
  IN IF r.by = "errorHandler"
       THEN <<[level |-> "ERROR", message |-> label],
              [level |-> "ERROR", message |-> "Global error handler"]>>
       ELSE <<>>

Idle == [op |-> "idle"]

VARIABLES
  users,      \* the users collection
  blogs,      \* the blogs collection: _id -> document
  nextBlogId, \* the next fresh blog _id
  tokens,     \* tokens the server has issued
  now,        \* the clock, in seconds
  inflight,   \* slot -> request waiting for its next database round trip
  req,        \* the request served by the last step
  resp,       \* the response sent by the last step (NoResponse: none yet)
  log,        \* the ERROR-level log entries written by the last step
  views       \* history: the getBlogById requests answered 200 so far

vars == <<users, blogs, nextBlogId, tokens, now, inflight, req, resp, log, views>>

Slots == 1..MaxInflight
BlogSlots == 1..MaxBlogInflight

\* slots are interchangeable: a new request takes the first free one
FreeSlot(s) == inflight[s] = Idle /\ \A r \in 1..(s - 1) : inflight[r] # Idle

InflightOf(op) == {s \in Slots : inflight[s].op = op}

\* the instants the clock visits: one second before, at and after each hour
Instants == {h * ExpiresIn + d : h \in 0..MaxHours, d \in {-1, 0, 1}} \cap Nat

\* ------------------------------------------------------------ authenticate
NoUser == [_id |-> 0]

\* .select('-password')
SelectWithoutPassword(u) == [f \in DOMAIN u \ {"password"} |-> u[f]]

\* authenticate(req, res, next) at clock value t: either it calls next()
\* with req.user set, or it sends a response itself
Authenticate(header, us, t) ==
  IF header = <<>>
    THEN [next |-> FALSE, status |-> 401,
          message |-> "Access denied. No token provided."]
  ELSE IF Len(header) < 2
    THEN [next |-> FALSE, status |-> 401,
          message |-> "Access denied. Invalid token format."]
  ELSE LET decoded == JwtVerify(header[2], t) IN
    IF decoded.error = "TokenExpiredError"
      THEN [next |-> FALSE, status |-> 401,
            message |-> "Token expired. Please login again."]
    ELSE IF decoded.error = "JsonWebTokenError"
      THEN [next |-> FALSE, status |-> 401, message |-> "Invalid token."]
    ELSE IF decoded.userId \notin DOMAIN us
      THEN [next |-> FALSE, status |-> 401,
            message |-> "User not found. Token invalid."]
    ELSE [next |-> TRUE, user |-> SelectWithoutPassword(us[decoded.userId])]

\* (variant) the delete route mounted without authenticate
ProtectedRoutes_DeleteOpen ==
  {"getCurrentUser", "createBlog", "getUserBlogs", "updateBlog"}

\* routes/auth.js and routes/blogs.js: the routes that mount authenticate
\* in front of their controller
ProtectedRoutes ==
  {"getCurrentUser", "createBlog", "getUserBlogs", "updateBlog", "deleteBlog"}

\* the middleware chain in front of a controller: authenticate when the
\* route mounts it, straight to the controller (req.user unset) otherwise
RunMiddleware(op, header, us, t) ==
  IF op \in ProtectedRoutes THEN Authenticate(header, us, t)
  ELSE [next |-> TRUE, user |-> NoUser]

\* the Authorization headers a client may send, split at the spaces
ForgedTokens ==
  {[userId |-> 1, iat |-> 0, exp |-> (MaxHours + 1) * ExpiresIn, sig |-> "forged"]}

\* headers that carry an unexpired token of user u
HeadersOf(u) == {<<"Bearer", tk>> : tk \in {t \in tokens : t.userId = u /\ now < t.exp}}

\* headers that carry an unexpired token of any user
ValidHeaders == {<<"Bearer", tk>> : tk \in {t \in tokens : now < t.exp}}

\* headers that carry a token the server issued (expired ones included)
TokenHeaders == {<<"Bearer", tk>> : tk \in tokens}

Headers ==
  {<<>>, <<"Bearer">>}
    \cup {<<"Bearer", tk>> : tk \in ForgedTokens \cup {GarbageToken}}
    \cup TokenHeaders

\* ------------------------------------------------------------------ signup
FirstNames == {<<>>, <<"J">>}
LastNames  == {<<"D">>}
Emails ==
  {<<>>, <<"a", "x">>,
   <<"a", "@", "x", ".", "y">>, <<"A", "@", "X", ".", "y">>,
   <<"b", "@", "x", ".", "y">>}
Secret  == <<"s", "e", "c", "r", "e", "t">>
Hunter2 == <<"h", "u", "n", "t", "e", "r", "2">>
SignupPasswords == {<<>>, <<"p", "w">>, Secret}
LoginPasswords  == {<<>>, Secret, Hunter2}

SignupBodies ==
  [first_name : FirstNames, last_name : LastNames,
   email : Emails, password : SignupPasswords]

\* the checks of signup up to and including User.findOne: the message of
\* the 400 response, or "ok" when the handler goes on to user.save()
SignupCheck(us, body) ==
  IF Falsy(body.first_name) \/ Falsy(body.last_name)
       \/ Falsy(body.email) \/ Falsy(body.password)
    THEN "All fields are required"
  ELSE IF ~EmailRegexTest(body.email) THEN "Please provide a valid email"
  ELSE IF Len(body.password) < MinPasswordLength
    THEN "Password must be at least 6 characters"
  ELSE IF FindUserByEmail(us, ToLowerCase(body.email)) # {}
    THEN "Email already registered"
  ELSE "ok"

\* signup, first round trip: validation and User.findOne
SignupBegin(s, bodies) ==
  \E body \in bodies :
    LET msg == SignupCheck(users, body) IN
    /\ FreeSlot(s)
    /\ req' = [op |-> "signup", phase |-> 1, body |-> body]
    /\ IF msg # "ok"
         THEN /\ resp' = Json("signup", "signup", 400, msg, NoData)
              /\ UNCHANGED inflight
         ELSE /\ Len(users) + Cardinality(InflightOf("signup")) < MaxUsers
              /\ Cardinality(tokens) + Cardinality(InflightOf("signup")) < MaxTokens
              /\ inflight' = [inflight EXCEPT ![s] = [op |-> "signup", body |-> body]]
              /\ resp' = NoResponse
    /\ log' = LoggedErrors(resp')
    /\ UNCHANGED <<users, blogs, nextBlogId, tokens, now, views>>

\* new User({ first_name, last_name, email, password }) with the schema's
\* setters (trim, lowercase); _id is the position the document will take
NewUser(us, body) ==
  [_id |-> Len(us) + 1,
   first_name |-> Trim(body.first_name), last_name |-> Trim(body.last_name),
   email |-> Trim(ToLowerCase(body.email)), password |-> body.password]

\* the validators of userSchema, run by save() before the pre-save hook
UserValidationMessages(doc) ==
  (IF doc.first_name = <<>> THEN <<"First name is required">> ELSE <<>>)
  \o (IF doc.last_name = <<>> THEN <<"Last name is required">> ELSE <<>>)
  \o (IF doc.email = <<>> THEN <<"Email is required">>
      ELSE IF ~EmailRegexTest(doc.email) THEN <<"Please provide a valid email">>
      ELSE <<>>)
  \o (IF doc.password = <<>> THEN <<"Password is required">>
      ELSE IF Len(doc.password) < MinPasswordLength
        THEN <<"Password must be at least 6 characters long">>
      ELSE <<>>)

\* signup, second round trip: user.save() (validate, hash, insert under the
\* unique index), then generateToken and the 201 response
SignupSave(s) ==
  /\ inflight[s].op = "signup"
  /\ LET body == inflight[s].body
         doc  == NewUser(users, body)
         errs == UserValidationMessages(doc)
     IN
     /\ req' = [op |-> "signup", phase |-> 2, body |-> body]
     /\ inflight' = [inflight EXCEPT ![s] = Idle]
     /\ IF errs # <<>>
          THEN /\ resp' = ErrorHandler("signup", ValidationError(errs))
               /\ UNCHANGED <<users, tokens>>
        ELSE IF ~EmailIndexAllows(users, doc.email)
          THEN /\ resp' = ErrorHandler("signup", DuplicateKeyError("email"))
               /\ UNCHANGED <<users, tokens>>
        ELSE \E salt \in Salts :
               LET saved == PreSaveUser(doc, salt)
                   token == GenerateToken(saved._id, now)
               IN
               /\ users' = Append(users, saved)
               /\ tokens' = tokens \cup {token}
               /\ resp' = Json("signup", "signup", 201, "User registered successfully",
                               [kind |-> "auth", user |-> UserToJSON(saved), token |-> token])
  /\ log' = LoggedErrors(resp')
  /\ UNCHANGED <<blogs, nextBlogId, now, views>>

\* ------------------------------------------------------------------- login
LoginBodies == [email : Emails, password : LoginPasswords]

\* (variant) a login that tells an unknown email from a wrong password
LoginCheck_UserNotFound(us, body) ==
  IF Falsy(body.email) \/ Falsy(body.password)
    THEN [ok |-> FALSE, status |-> 400, message |-> "Email and password are required"]
  ELSE LET found == FindUserByEmail(us, ToLowerCase(body.email)) IN
    IF found = {}
      THEN [ok |-> FALSE, status |-> 404, message |-> "User not found"]
    ELSE LET user == us[CHOOSE i \in found : TRUE] IN
      IF ~BcryptCompare(body.password, user.password)
        THEN [ok |-> FALSE, status |-> 401, message |-> "Invalid email or password"]
      ELSE [ok |-> TRUE, user |-> user]

\* login up to the password comparison: the user matched, or the response
LoginCheck(us, body) ==
  IF Falsy(body.email) \/ Falsy(body.password)
    THEN [ok |-> FALSE, status |-> 400, message |-> "Email and password are required"]
  ELSE LET found == FindUserByEmail(us, ToLowerCase(body.email)) IN
    IF found = {}
      THEN [ok |-> FALSE, status |-> 401, message |-> "Invalid email or password"]
    ELSE LET user == us[CHOOSE i \in found : TRUE] IN
      IF ~BcryptCompare(body.password, user.password)
        THEN [ok |-> FALSE, status |-> 401, message |-> "Invalid email or password"]
      ELSE [ok |-> TRUE, user |-> user]

\* the response of login at clock value t
LoginResponse(us, body, t) ==
  LET c == LoginCheck(us, body) IN
  IF ~c.ok THEN Json("login", "login", c.status, c.message, NoData)
  ELSE Json("login", "login", 200, "Login successful",
            [kind |-> "auth", user |-> UserToJSON(c.user),
             token |-> GenerateToken(c.user._id, t)])

Login(bodies) ==
  \E body \in bodies :
    LET r == LoginResponse(users, body, now) IN
    /\ req' = [op |-> "login", phase |-> 1, body |-> body]
    /\ resp' = r
    /\ IF r.status = 200
         THEN /\ Cardinality(tokens \cup {r.data.token}) <= MaxTokens
              /\ tokens' = tokens \cup {r.data.token}
         ELSE UNCHANGED tokens
    /\ log' = LoggedErrors(resp')
    /\ UNCHANGED <<users, blogs, nextBlogId, now, inflight, views>>

\* ---------------------------------------------------------- getCurrentUser
GetCurrentUser(headers) ==
  \E header \in headers :
    LET a == RunMiddleware("getCurrentUser", header, users, now) IN
    /\ req' = [op |-> "getCurrentUser", phase |-> 1, header |-> header]
    /\ resp' = IF ~a.next
                 THEN Json("getCurrentUser", "authenticate", a.status, a.message, NoData)
                 ELSE Json("getCurrentUser", "getCurrentUser", 200, "",
                           [kind |-> "user", user |-> a.user])
    /\ log' = LoggedErrors(resp')
    /\ UNCHANGED <<users, blogs, nextBlogId, tokens, now, inflight, views>>

\* ------------------------------------------------------------------- blogs
\* blog documents: _id, title, description, tags, body, author (a user _id),
\* state, read_count, reading_time, timestamp.  updatedAt, which the
\* pre-save hook refreshes on every save, is not kept: it only makes every
\* save() of a loaded document send an update to the database.

\* populate('author', 'first_name last_name email')
AuthorFields(u) == [f \in {"_id", "first_name", "last_name", "email"} |-> u[f]]

PopulateAuthor(doc, us) == [doc EXCEPT !.author = AuthorFields(us[doc.author])]

\* (variant) an index on title that is not unique
TitleIndexAllows_NotUnique(bs, id, title) == TRUE

\* the unique index on title: no other document may hold the same title
TitleIndexAllows(bs, id, title) == \A j \in DOMAIN bs \ {id} : bs[j].title # title

\* the validators of blogSchema run by save()
BlogValidationMessages(doc) ==
  (IF Falsy(doc.title) THEN <<"Title is required">> ELSE <<>>)
  \o (IF doc.state \notin {"draft", "published"}
        THEN <<doc.state \o " is not a valid enum value for path state.">>
        ELSE <<>>)
  \o (IF Falsy(doc.body) THEN <<"Blog body is required">> ELSE <<>>)

\* (variant) a blog whose author is read from the request body
NewBlog_AuthorFromBody(id, body, authorId, t) ==
  [_id |-> id,
   title |-> Trim(CastString(body.title)),
   description |-> IF body.description = Undefined THEN Undefined
                   ELSE Trim(CastString(body.description)),
   tags |-> IF body.tags = Undefined THEN <<>> ELSE body.tags,
   body |-> CastString(body.body),
   author |-> IF "author" \in DOMAIN body THEN body.author ELSE authorId,
   reading_time |-> CalculateReadingTime(body.body),
   state |-> "draft",
   read_count |-> 0,
   timestamp |-> t]

\* (variant) a blog that starts in the state its request body names
NewBlog_StateFromBody(id, body, authorId, t) ==
  [_id |-> id,
   title |-> Trim(CastString(body.title)),
   description |-> IF body.description = Undefined THEN Undefined
                   ELSE Trim(CastString(body.description)),
   tags |-> IF body.tags = Undefined THEN <<>> ELSE body.tags,
   body |-> CastString(body.body),
   author |-> authorId,
   reading_time |-> CalculateReadingTime(body.body),
   state |-> IF "state" \in DOMAIN body THEN body.state ELSE "draft",
   read_count |-> 0,
   timestamp |-> t]

\* new Blog({ title, description, tags: tags || [], body, author,
\* reading_time, state: 'draft' }) with the schema's setters and defaults
NewBlog(id, body, authorId, t) ==
  [_id |-> id,
   title |-> Trim(CastString(body.title)),
   description |-> IF body.description = Undefined THEN Undefined
                   ELSE Trim(CastString(body.description)),
   tags |-> IF body.tags = Undefined THEN <<>> ELSE body.tags,
   body |-> CastString(body.body),
   author |-> authorId,
   reading_time |-> CalculateReadingTime(body.body),
   state |-> "draft",
   read_count |-> 0,
   timestamp |-> t]

\* a controller's outcome: the response and the blogs collection after it
Outcome(r, bs) == [resp |-> r, blogs |-> bs]

\* createBlog with req.user = user, the fresh _id being id
CreateBlogOutcome(bs, us, user, body, id, t) ==
  IF Falsy(body.title) \/ Falsy(body.body)
    THEN Outcome(Json("createBlog", "createBlog", 400, "Title and body are required", NoData), bs)
  ELSE IF user = NoUser
    THEN Outcome(ErrorHandler("createBlog", TypeError), bs)
  ELSE LET doc  == NewBlog(id, body, user._id, t)
           errs == BlogValidationMessages(doc)
       IN
       IF errs # <<>>
         THEN Outcome(ErrorHandler("createBlog", ValidationError(errs)), bs)
       ELSE IF ~TitleIndexAllows(bs, id, doc.title)
         THEN Outcome(ErrorHandler("createBlog", DuplicateKeyError("title")), bs)
       ELSE Outcome(Json("createBlog", "createBlog", 201, "Blog created successfully",
                         [kind |-> "blog", blog |-> PopulateAuthor(doc, us)]),
                    bs @@ (id :> doc))

\* the response of authenticate when it does not call next()
Rejected(op, a) == Json(op, "authenticate", a.status, a.message, NoData)

CreateBlog(headers, bodies, cap) ==
  \E header \in headers :
    LET a == RunMiddleware("createBlog", header, users, now) IN
    /\ IF ~a.next
         THEN /\ req' = [op |-> "createBlog", phase |-> 1, header |-> header]
              /\ resp' = Rejected("createBlog", a)
              /\ UNCHANGED <<blogs, nextBlogId>>
         ELSE \E body \in bodies :
                LET o == CreateBlogOutcome(blogs, users, a.user, body, nextBlogId, now) IN
                /\ req' = [op |-> "createBlog", phase |-> 1, header |-> header,
                            user |-> a.user._id, body |-> body]
                /\ resp' = o.resp
                /\ blogs' = o.blogs
                /\ IF o.resp.status = 201
                     THEN nextBlogId <= cap /\ nextBlogId' = nextBlogId + 1
                     ELSE UNCHANGED nextBlogId
    /\ log' = LoggedErrors(resp')
    /\ UNCHANGED <<users, tokens, now, inflight, views>>

\* ------------------------------------------------------------ find queries
\* a filter of Blog.find / Blog.countDocuments: state ("" for any), author
\* (0 for any) and the search pattern of the $or of two $regex clauses
\* (Undefined for none)
MatchesFilter(doc, filter) ==
  /\ filter.state = "" \/ doc.state = filter.state
  /\ filter.author = 0 \/ doc.author = filter.author
  /\ \/ filter.search = Undefined
     \/ RegexTest(filter.search, doc.title)
     \/ \E k \in DOMAIN doc.tags : RegexTest(filter.search, doc.tags[k])

Find(bs, filter) == {id \in DOMAIN bs : MatchesFilter(bs[id], filter)}

\* (variant) a sort that ignores the requested path
SortKey_Timestamp(doc, orderBy) == doc.timestamp

\* the value a document is sorted by (a path the schema does not have
\* compares equal for every document)
SortKey(doc, orderBy) == IF orderBy \in DOMAIN doc THEN doc[orderBy] ELSE 0

\* .sort({ [orderBy]: dir }): every order of the matching documents that
\* respects the key; the order among equal keys is the database's choice
RECURSIVE Sorted(_, _, _, _)
Sorted(bs, ids, orderBy, dir) ==
  IF ids = {} THEN {<<>>}
  ELSE LET firsts == {m \in ids : \A k \in ids :
                        dir * SortKey(bs[m], orderBy) <= dir * SortKey(bs[k], orderBy)}
       IN UNION {{<<m>> \o t : t \in Sorted(bs, ids \ {m}, orderBy, dir)} : m \in firsts}

\* (variant) a page that always starts at the first document
SkipLimit_FromStart(p, skip, limit) == SubSeq(p, 1, Min(Abs(limit), Len(p)))

\* .skip(skip).limit(limit) of the driver: a negative limit is sent as its
\* absolute value in a single batch
SkipLimit(p, skip, limit) == SubSeq(p, skip + 1, Min(skip + Abs(limit), Len(p)))

Pagination(page, total, limit) ==
  [currentPage |-> page, totalPages |-> CeilDiv(total, limit),
   totalBlogs |-> total, limit |-> limit]

\* ---------------------------------------------------- getAllPublishedBlogs
\* (variant) the filter without its state restriction
PublishedFilter_AnyState(query) ==
  [state |-> "", author |-> 0,
   search |-> IF Falsy(query.search) THEN Undefined ELSE query.search]

\* the filter getAllPublishedBlogs builds from req.query
PublishedFilter(query) ==
  [state |-> "published", author |-> 0,
   search |-> IF Falsy(query.search) THEN Undefined ELSE query.search]

\* the responses getAllPublishedBlogs may send for a query
GetAllPublishedBlogsResponses(bs, us, query) ==
  LET page    == ParseIntOr(query.page, 1)
      limit   == ParseIntOr(query.limit, 20)
      orderBy == IF query.orderBy = "" THEN "timestamp" ELSE query.orderBy
      order   == IF query.order = "asc" THEN 1 ELSE -1
      skip    == (page - 1) * limit
      filter  == PublishedFilter(query)
      ids     == Find(bs, filter)
  IN
  IF skip < 0
    THEN {ErrorHandler("getAllPublishedBlogs",
                       MongoServerError("Skip value must be non-negative"))}
  ELSE {Json("getAllPublishedBlogs", "getAllPublishedBlogs", 200, "",
             [kind |-> "list",
              blogs |-> [k \in DOMAIN SkipLimit(p, skip, limit) |->
                           PopulateAuthor(bs[SkipLimit(p, skip, limit)[k]], us)],
              pagination |-> Pagination(page, Cardinality(ids), limit)])
          : p \in Sorted(bs, ids, orderBy, order)}

GetAllPublishedBlogs(queries) ==
  \E query \in queries :
    /\ req' = [op |-> "getAllPublishedBlogs", phase |-> 1, query |-> query]
    /\ resp' \in GetAllPublishedBlogsResponses(blogs, users, query)
    /\ log' = LoggedErrors(resp')
    /\ UNCHANGED <<users, blogs, nextBlogId, tokens, now, inflight, views>>

\* ------------------------------------------------------------ getUserBlogs
\* (variant) the filter without its author restriction
UserBlogsFilter_AnyAuthor(user, query) ==
  [state |-> IF query.state \in {"draft", "published"} THEN query.state ELSE "",
   author |-> 0, search |-> Undefined]

UserBlogsFilter(user, query) ==
  [state |-> IF query.state \in {"draft", "published"} THEN query.state ELSE "",
   author |-> user._id, search |-> Undefined]

GetUserBlogsResponses(bs, user, query) ==
  LET page   == ParseIntOr(query.page, 1)
      limit  == ParseIntOr(query.limit, 20)
      skip   == (page - 1) * limit
      ids    == Find(bs, UserBlogsFilter(user, query))
  IN
  IF user = NoUser THEN {ErrorHandler("getUserBlogs", TypeError)}
  ELSE IF skip < 0
    THEN {ErrorHandler("getUserBlogs", MongoServerError("Skip value must be non-negative"))}
  ELSE {Json("getUserBlogs", "getUserBlogs", 200, "",
             [kind |-> "ownlist",
              blogs |-> [k \in DOMAIN SkipLimit(p, skip, limit) |->
                           bs[SkipLimit(p, skip, limit)[k]]],
              pagination |-> Pagination(page, Cardinality(ids), limit)])
          : p \in Sorted(bs, ids, "timestamp", -1)}

GetUserBlogs(headers, queries) ==
  \E header \in headers :
    LET a == RunMiddleware("getUserBlogs", header, users, now) IN
    /\ IF ~a.next
         THEN /\ req' = [op |-> "getUserBlogs", phase |-> 1, header |-> header]
              /\ resp' = Rejected("getUserBlogs", a)
         ELSE \E query \in queries :
                /\ req' = [op |-> "getUserBlogs", phase |-> 1, header |-> header,
                            user |-> a.user._id, query |-> query]
                /\ resp' \in GetUserBlogsResponses(blogs, a.user, query)
    /\ log' = LoggedErrors(resp')
    /\ UNCHANGED <<users, blogs, nextBlogId, tokens, now, inflight, views>>

\* ------------------------------------------------------------- getBlogById
\* the :id parameters a client may send: 0 stands for a string that does
\* not cast to an ObjectId; the well-formed ids are those of the blogs ever
\* created and one that no blog has had yet
BadId == 0
IdParams == 0..nextBlogId

NotFound(op) == Json(op, op, 404, "Blog not found", NoData)

\* (variant) the lookup by _id alone
FindPublishedById_AnyState(bs, id) == {j \in DOMAIN bs : j = id}

\* Blog.findOne({ _id: id, state: 'published' })
FindPublishedById(bs, id) ==
  {j \in DOMAIN bs : j = id /\ bs[j].state = "published"}

\* getBlogById up to the lookup: the document found, or the response
GetBlogByIdLookup(bs, id) ==
  IF id = BadId THEN [found |-> FALSE, resp |-> ErrorHandler("getBlogById", CastError)]
  ELSE IF FindPublishedById(bs, id) = {}
    THEN [found |-> FALSE, resp |-> NotFound("getBlogById")]
  ELSE [found |-> TRUE, doc |-> bs[id]]

\* (variant) a fetch that counts twice
IncrementReadCount_Twice(doc) == [doc EXCEPT !.read_count = @ + 2]

\* this.read_count += 1 of incrementReadCount, on the loaded document
IncrementReadCount(doc) == [doc EXCEPT !.read_count = @ + 1]

\* getBlogById, first round trip: findOne + populate; then
\* blog.incrementReadCount() adds 1 to the loaded document and calls save()
GetBlogByIdBegin(s, cap) ==
  \E id \in IdParams :
    LET l == GetBlogByIdLookup(blogs, id) IN
    /\ FreeSlot(s)
    /\ req' = [op |-> "getBlogById", phase |-> 1, id |-> id]
    /\ IF ~l.found
         THEN resp' = l.resp /\ UNCHANGED inflight
         ELSE /\ l.doc.read_count < cap /\ views < cap
              /\ inflight' = [inflight EXCEPT ![s] =
                   [op |-> "getBlogById", id |-> id,
                    doc |-> IncrementReadCount(l.doc)]]
              /\ resp' = NoResponse
    /\ log' = LoggedErrors(resp')
    /\ UNCHANGED <<users, blogs, nextBlogId, tokens, now, views>>

\* save() of a loaded document: updateOne({ _id }, { $set: modified paths });
\* DocumentNotFoundError when no document has that _id any more
SaveLoaded(bs, id, doc, modified) ==
  [bs EXCEPT ![id] = [f \in DOMAIN @ |-> IF f \in modified THEN doc[f] ELSE @[f]]]

\* (variant) a save that inserts the document when it is gone
GetBlogByIdSave_Upsert(s) ==
  /\ inflight[s].op = "getBlogById"
  /\ LET id == inflight[s].id
         doc == inflight[s].doc
     IN
     /\ req' = [op |-> "getBlogById", phase |-> 2, id |-> id]
     /\ blogs' = IF id \in DOMAIN blogs THEN SaveLoaded(blogs, id, doc, {"read_count"})
                 ELSE [j \in DOMAIN blogs \cup {id} |-> IF j = id THEN doc ELSE blogs[j]]
     /\ resp' = Json("getBlogById", "getBlogById", 200, "",
                     [kind |-> "blog", blog |-> PopulateAuthor(doc, users)])
  /\ inflight' = [inflight EXCEPT ![s] = Idle]
  /\ log' = LoggedErrors(resp')
  /\ views' = views + 1
  /\ UNCHANGED <<users, nextBlogId, tokens, now>>

\* getBlogById, second round trip: the save of incrementReadCount
GetBlogByIdSave(s) ==
  /\ inflight[s].op = "getBlogById"
  /\ LET id == inflight[s].id
         doc == inflight[s].doc
     IN
     /\ req' = [op |-> "getBlogById", phase |-> 2, id |-> id]
     /\ IF id \notin DOMAIN blogs
          THEN /\ resp' = ErrorHandler("getBlogById", DocumentNotFoundError)
               /\ UNCHANGED blogs
          ELSE /\ blogs' = SaveLoaded(blogs, id, doc, {"read_count"})
               /\ resp' = Json("getBlogById", "getBlogById", 200, "",
                               [kind |-> "blog", blog |-> PopulateAuthor(doc, users)])
  /\ inflight' = [inflight EXCEPT ![s] = Idle]
  /\ log' = LoggedErrors(resp')
  /\ views' = IF resp'.status = 200 THEN views + 1 ELSE views
  /\ UNCHANGED <<users, nextBlogId, tokens, now>>

\* -------------------------------------------------------------- updateBlog
UpdatablePaths == {"title", "description", "tags", "body", "reading_time", "state"}

\* (variant) an update that replaces the description, absent or not
ApplyUpdate_ReplaceDescription(doc, body) ==
  [doc EXCEPT
     !.title = IF ~Falsy(body.title) THEN Trim(CastString(body.title)) ELSE @,
     !.description = IF body.description # Undefined
                       THEN Trim(CastString(body.description)) ELSE Undefined,
     !.tags = IF body.tags # Undefined THEN body.tags ELSE @,
     !.body = IF ~Falsy(body.body) THEN CastString(body.body) ELSE @,
     !.reading_time = IF ~Falsy(body.body) THEN CalculateReadingTime(body.body) ELSE @,
     !.state = IF body.state \in {"draft", "published"} THEN body.state ELSE @]

\* (variant) an update that tests the description like the title
ApplyUpdate_TruthyDescription(doc, body) ==
  [doc EXCEPT
     !.title = IF ~Falsy(body.title) THEN Trim(CastString(body.title)) ELSE @,
     !.description = IF ~Falsy(body.description)
                       THEN Trim(CastString(body.description)) ELSE @,
     !.tags = IF body.tags # Undefined THEN body.tags ELSE @,
     !.body = IF ~Falsy(body.body) THEN CastString(body.body) ELSE @,
     !.reading_time = IF ~Falsy(body.body) THEN CalculateReadingTime(body.body) ELSE @,
     !.state = IF body.state \in {"draft", "published"} THEN body.state ELSE @]

\* (variant) an update that assigns any state the request names
ApplyUpdate_AnyState(doc, body) ==
  [doc EXCEPT
     !.title = IF ~Falsy(body.title) THEN Trim(CastString(body.title)) ELSE @,
     !.description = IF body.description # Undefined
                       THEN Trim(CastString(body.description)) ELSE @,
     !.tags = IF body.tags # Undefined THEN body.tags ELSE @,
     !.body = IF ~Falsy(body.body) THEN CastString(body.body) ELSE @,
     !.reading_time = IF ~Falsy(body.body) THEN CalculateReadingTime(body.body) ELSE @,
     !.state = IF body.state # "" THEN body.state ELSE @]

\* (variant) an update that can publish but not withdraw
ApplyUpdate_PublishOnly(doc, body) ==
  [doc EXCEPT
     !.title = IF ~Falsy(body.title) THEN Trim(CastString(body.title)) ELSE @,
     !.description = IF body.description # Undefined
                       THEN Trim(CastString(body.description)) ELSE @,
     !.tags = IF body.tags # Undefined THEN body.tags ELSE @,
     !.body = IF ~Falsy(body.body) THEN CastString(body.body) ELSE @,
     !.reading_time = IF ~Falsy(body.body) THEN CalculateReadingTime(body.body) ELSE @,
     !.state = IF body.state = "published" THEN body.state ELSE @]

\* the assignments of updateBlog to the loaded document
ApplyUpdate(doc, body) ==
  [doc EXCEPT
     !.title = IF ~Falsy(body.title) THEN Trim(CastString(body.title)) ELSE @,
     !.description = IF body.description # Undefined
                       THEN Trim(CastString(body.description)) ELSE @,
     !.tags = IF body.tags # Undefined THEN body.tags ELSE @,
     !.body = IF ~Falsy(body.body) THEN CastString(body.body) ELSE @,
     !.reading_time = IF ~Falsy(body.body) THEN CalculateReadingTime(body.body) ELSE @,
     !.state = IF body.state \in {"draft", "published"} THEN body.state ELSE @]

\* (variant) the lookup without the ownership check
OwnedLookup_NoOwnerCheck(op, bs, user, id, forbidden) ==
  IF id = BadId THEN [found |-> FALSE, resp |-> ErrorHandler(op, CastError)]
  ELSE IF id \notin DOMAIN bs THEN [found |-> FALSE, resp |-> NotFound(op)]
  ELSE IF user = NoUser THEN [found |-> FALSE, resp |-> ErrorHandler(op, TypeError)]
  ELSE [found |-> TRUE, doc |-> bs[id]]

\* (variant) one check for "missing or not the caller's"
OwnedLookup_ForbiddenFirst(op, bs, user, id, forbidden) ==
  IF id = BadId THEN [found |-> FALSE, resp |-> ErrorHandler(op, CastError)]
  ELSE IF user = NoUser THEN [found |-> FALSE, resp |-> ErrorHandler(op, TypeError)]
  ELSE IF id \notin DOMAIN bs \/ bs[id].author # user._id
    THEN [found |-> FALSE, resp |-> Json(op, op, 403, forbidden, NoData)]
  ELSE [found |-> TRUE, doc |-> bs[id]]

\* the lookup and the ownership check shared by updateBlog and deleteBlog:
\* the loaded document, or the response
OwnedLookup(op, bs, user, id, forbidden) ==
  IF id = BadId THEN [found |-> FALSE, resp |-> ErrorHandler(op, CastError)]
  ELSE IF id \notin DOMAIN bs THEN [found |-> FALSE, resp |-> NotFound(op)]
  ELSE IF user = NoUser THEN [found |-> FALSE, resp |-> ErrorHandler(op, TypeError)]
  ELSE IF bs[id].author # user._id
    THEN [found |-> FALSE, resp |-> Json(op, op, 403, forbidden, NoData)]
  ELSE [found |-> TRUE, doc |-> bs[id]]

UpdateLookup(bs, user, id) ==
  OwnedLookup("updateBlog", bs, user, id, "You are not authorized to update this blog")

\* updateBlog, first round trip: authenticate, Blog.findById, the checks
\* and the assignments to the loaded document
UpdateBlogBegin(s, headers, bodies) ==
  \E header \in headers :
    LET a == RunMiddleware("updateBlog", header, users, now) IN
    /\ FreeSlot(s)
    /\ IF ~a.next
         THEN /\ req' = [op |-> "updateBlog", phase |-> 1, header |-> header]
              /\ resp' = Rejected("updateBlog", a)
              /\ UNCHANGED inflight
         ELSE \E id \in IdParams, body \in bodies :
                LET l == UpdateLookup(blogs, a.user, id) IN
                /\ req' = [op |-> "updateBlog", phase |-> 1, header |-> header,
                            user |-> a.user._id, id |-> id, body |-> body]
                /\ IF ~l.found
                     THEN resp' = l.resp /\ UNCHANGED inflight
                     ELSE /\ inflight' = [inflight EXCEPT ![s] =
                               [op |-> "updateBlog", user |-> a.user._id, id |-> id,
                                body |-> body, loaded |-> l.doc,
                                doc |-> ApplyUpdate(l.doc, body)]]
                          /\ resp' = NoResponse
    /\ log' = LoggedErrors(resp')
    /\ UNCHANGED <<users, blogs, nextBlogId, tokens, now, views>>

\* updateBlog, second round trip: blog.save() (validate, then update the
\* modified paths under the unique index), populate and the 200 response
UpdateBlogSave(s) ==
  /\ inflight[s].op = "updateBlog"
  /\ LET c == inflight[s]
         modified == {f \in UpdatablePaths : c.doc[f] # c.loaded[f]}
         errs == BlogValidationMessages(c.doc)
     IN
     /\ req' = [op |-> "updateBlog", phase |-> 2, user |-> c.user, id |-> c.id, body |-> c.body]
     /\ IF errs # <<>>
          THEN /\ resp' = ErrorHandler("updateBlog", ValidationError(errs))
               /\ UNCHANGED blogs
        ELSE IF c.id \notin DOMAIN blogs
          THEN /\ resp' = ErrorHandler("updateBlog", DocumentNotFoundError)
               /\ UNCHANGED blogs
        ELSE IF "title" \in modified /\ ~TitleIndexAllows(blogs, c.id, c.doc.title)
          THEN /\ resp' = ErrorHandler("updateBlog", DuplicateKeyError("title"))
               /\ UNCHANGED blogs
        ELSE /\ blogs' = SaveLoaded(blogs, c.id, c.doc, modified)
             /\ resp' = Json("updateBlog", "updateBlog", 200, "Blog updated successfully",
                             [kind |-> "blog", blog |-> PopulateAuthor(c.doc, users)])
  /\ inflight' = [inflight EXCEPT ![s] = Idle]
  /\ log' = LoggedErrors(resp')
  /\ UNCHANGED <<users, nextBlogId, tokens, now, views>>

\* -------------------------------------------------------------- deleteBlog
DeleteLookup(bs, user, id) ==
  OwnedLookup("deleteBlog", bs, user, id, "You are not authorized to delete this blog")

\* deleteBlog, first round trip: authenticate, Blog.findById and the checks
DeleteBlogBegin(s, headers) ==
  \E header \in headers :
    LET a == RunMiddleware("deleteBlog", header, users, now) IN
    /\ FreeSlot(s)
    /\ IF ~a.next
         THEN /\ req' = [op |-> "deleteBlog", phase |-> 1, header |-> header]
              /\ resp' = Rejected("deleteBlog", a)
              /\ UNCHANGED inflight
         ELSE \E id \in IdParams :
                LET l == DeleteLookup(blogs, a.user, id) IN
                /\ req' = [op |-> "deleteBlog", phase |-> 1, header |-> header,
                            user |-> a.user._id, id |-> id]
                /\ IF ~l.found
                     THEN resp' = l.resp /\ UNCHANGED inflight
                     ELSE /\ inflight' = [inflight EXCEPT ![s] =
                               [op |-> "deleteBlog", user |-> a.user._id, id |-> id]]
                          /\ resp' = NoResponse
    /\ log' = LoggedErrors(resp')
    /\ UNCHANGED <<users, blogs, nextBlogId, tokens, now, views>>

\* (variant) a delete that removes nothing
FindByIdAndDelete_Keep(bs, id) == bs

\* Blog.findByIdAndDelete(id): removes the document when it is there
FindByIdAndDelete(bs, id) == [j \in DOMAIN bs \ {id} |-> bs[j]]

\* deleteBlog, second round trip: findByIdAndDelete and the 200 response
DeleteBlogFinish(s) ==
  /\ inflight[s].op = "deleteBlog"
  /\ req' = [op |-> "deleteBlog", phase |-> 2, user |-> inflight[s].user, id |-> inflight[s].id]
  /\ blogs' = FindByIdAndDelete(blogs, inflight[s].id)
  /\ resp' = Json("deleteBlog", "deleteBlog", 200, "Blog deleted successfully", NoData)
  /\ inflight' = [inflight EXCEPT ![s] = Idle]
  /\ log' = LoggedErrors(resp')
  /\ UNCHANGED <<users, nextBlogId, tokens, now, views>>

\* ------------------------------------------------------------------- clock
NoRequest == [op |-> "none", phase |-> 0]

\* time passes; the step serves no request
Tick ==
  /\ \E t \in Instants : t > now /\ now' = t
  /\ req' = NoRequest
  /\ resp' = NoResponse
  /\ log' = LoggedErrors(resp')
  /\ UNCHANGED <<users, blogs, nextBlogId, tokens, inflight, views>>

\* ------------------------------------------------------------ request data
T1  == <<"a">>
T2  == <<"A", "b">>
Tag == <<"b", "a">>

Body1 == [title |-> T1, body |-> Words(1), description |-> Undefined, tags |-> Undefined]
Body2 == [title |-> T2, body |-> Words(1), description |-> Undefined, tags |-> <<Tag>>]

CreateBodies ==
  {Body1, Body2, [Body1 EXCEPT !.title = <<>>], [Body2 EXCEPT !.body = Undefined]}

NoUpdate ==
  [title |-> Undefined, description |-> Undefined, tags |-> Undefined,
   body |-> Undefined, state |-> ""]

UpdateBodies ==
  {[NoUpdate EXCEPT !.state = "published"],
   [NoUpdate EXCEPT !.title = T2, !.tags = <<>>]}

DefaultQuery ==
  [page |-> Undefined, limit |-> Undefined, search |-> Undefined,
   orderBy |-> "", order |-> ""]

ListQueries ==
  [page : {Undefined, <<"2">>, <<"-", "1">>}, limit : {Undefined, <<"1">>},
   search : {Undefined, <<"b">>}, orderBy : {""}, order : {""}]
    \cup {[DefaultQuery EXCEPT !.orderBy = "reading_time", !.order = "asc"]}

PublishBodies ==
  {[NoUpdate EXCEPT !.state = "published"], [NoUpdate EXCEPT !.state = "draft"]}

DefaultUserQuery == [page |-> Undefined, limit |-> Undefined, state |-> ""]

UserQueries ==
  [page : {Undefined}, limit : {Undefined}, state : {"", "draft", "bogus"}]

Jane ==
  [first_name |-> <<"J">>, last_name |-> <<"D">>,
   email |-> <<"a", "@", "x", ".", "y">>, password |-> Secret]
JaneLogin == [email |-> Jane.email, password |-> Secret]
JaneWrongLogin == [email |-> Jane.email, password |-> Hunter2]

\* ---------------------------------------------------------- specifications
Init ==
  /\ users = <<>>
  /\ blogs = <<>>
  /\ nextBlogId = 1
  /\ tokens = {}
  /\ now = 0
  /\ inflight = [s \in Slots |-> Idle]
  /\ req = NoRequest
  /\ resp = NoResponse
  /\ log = <<>>
  /\ views = 0

\* signup, login and /me over every kind of body, at one instant
Next ==
  \/ \E s \in Slots : SignupBegin(s, SignupBodies)
  \/ \E s \in Slots : SignupSave(s)
  \/ Login(LoginBodies)
  \/ GetCurrentUser(TokenHeaders)

Spec == Init /\ [][Next]_vars

\* one user's tokens, issued by signup and by logins, as the clock advances
NextToken ==
  \/ \E s \in Slots : SignupBegin(s, {Jane})
  \/ \E s \in Slots : SignupSave(s)
  \/ Login({JaneLogin})
  \/ GetCurrentUser(Headers)
  \/ Tick

SpecToken == Init /\ [][NextToken]_vars

\* two users as signup stores them, and the tokens of a signup at 0 and of
\* a signup and a login one second before the hour, seen one second after
\* the hour
RegisteredUsers ==
  LET u1 == PreSaveUser(NewUser(<<>>, Jane), "s1")
      u2 == PreSaveUser(NewUser(<<u1>>,
              [first_name |-> <<"J">>, last_name |-> <<"D">>,
               email |-> <<"b", "@", "x", ".", "y">>, password |-> Secret]), "s2")
  IN <<u1, u2>>

InitBlog ==
  /\ users = RegisteredUsers
  /\ blogs = <<>>
  /\ nextBlogId = 1
  /\ tokens = {GenerateToken(1, 0), GenerateToken(1, ExpiresIn - 1),
               GenerateToken(2, ExpiresIn - 1)}
  /\ now = ExpiresIn + 1
  /\ inflight = [s \in Slots |-> Idle]
  /\ req = NoRequest
  /\ resp = NoResponse
  /\ log = <<>>
  /\ views = 0

\* one user's blogs, updated and deleted by that user and by another
NextBlog ==
  \/ CreateBlog(HeadersOf(1), CreateBodies, MaxBlogs)
  \/ \E s \in BlogSlots : UpdateBlogBegin(s, ValidHeaders, UpdateBodies)
  \/ \E s \in BlogSlots : UpdateBlogSave(s)
  \/ \E s \in BlogSlots : DeleteBlogBegin(s, ValidHeaders)
  \/ \E s \in BlogSlots : DeleteBlogFinish(s)

SpecBlog == InitBlog /\ [][NextBlog]_vars

\* one user's blogs from creation to deletion, fetched and listed meanwhile
NextLife ==
  \/ CreateBlog(HeadersOf(1), {Body1, Body2}, MaxBlogs)
  \/ GetAllPublishedBlogs({DefaultQuery})
  \/ GetUserBlogs(HeadersOf(1), {DefaultUserQuery})
  \/ \E s \in BlogSlots : GetBlogByIdBegin(s, MaxReads)
  \/ \E s \in BlogSlots : GetBlogByIdSave(s)
  \/ \E s \in BlogSlots :
       UpdateBlogBegin(s, HeadersOf(1), {[NoUpdate EXCEPT !.state = "published"]})
  \/ \E s \in BlogSlots : UpdateBlogSave(s)
  \/ \E s \in BlogSlots : DeleteBlogBegin(s, HeadersOf(1))
  \/ \E s \in BlogSlots : DeleteBlogFinish(s)

SpecLife == InitBlog /\ [][NextLife]_vars

\* the public listing over blogs that one user creates, publishes and
\* withdraws
NextList ==
  \/ CreateBlog(HeadersOf(1), {Body1, Body2}, MaxListBlogs)
  \/ \E s \in BlogSlots : UpdateBlogBegin(s, HeadersOf(1), PublishBodies)
  \/ \E s \in BlogSlots : UpdateBlogSave(s)
  \/ GetAllPublishedBlogs(ListQueries)

SpecList == InitBlog /\ [][NextList]_vars

\* every route, from the empty database
NextAll ==
  \/ \E s \in Slots : SignupBegin(s, {Jane})
  \/ \E s \in Slots : SignupSave(s)
  \/ Login({JaneLogin, JaneWrongLogin})
  \/ GetCurrentUser(TokenHeaders)
  \/ CreateBlog(TokenHeaders, {Body1}, MaxBlogs)
  \/ GetAllPublishedBlogs({DefaultQuery})
  \/ GetUserBlogs(TokenHeaders, {DefaultUserQuery})
  \/ \E s \in BlogSlots : GetBlogByIdBegin(s, MaxReads)
  \/ \E s \in BlogSlots : GetBlogByIdSave(s)
  \/ \E s \in BlogSlots : UpdateBlogBegin(s, TokenHeaders, {[NoUpdate EXCEPT !.state = "published"]})
  \/ \E s \in BlogSlots : UpdateBlogSave(s)
  \/ \E s \in BlogSlots : DeleteBlogBegin(s, TokenHeaders)
  \/ \E s \in BlogSlots : DeleteBlogFinish(s)

SpecAll == Init /\ [][NextAll]_vars
\* the protected routes under every kind of Authorization header
NextGuard ==
  \/ GetCurrentUser(Headers)
  \/ CreateBlog(Headers, {Body1}, MaxBlogs)
  \/ GetUserBlogs(Headers, UserQueries)
  \/ \E s \in BlogSlots : UpdateBlogBegin(s, Headers, PublishBodies)
  \/ \E s \in BlogSlots : UpdateBlogSave(s)
  \/ \E s \in BlogSlots : DeleteBlogBegin(s, Headers)
  \/ \E s \in BlogSlots : DeleteBlogFinish(s)

SpecGuard == InitBlog /\ [][NextGuard]_vars

\* bodies of createBlog, some with paths of a blog that createBlog does
\* not read, some without a title or with an empty body
CreateInputs ==
  LET Extras == [state |-> "published", author |-> 2, read_count |-> 5, reading_time |-> 9]
  IN CreateBodies
       \cup {Body1 @@ Extras, Body2 @@ Extras,
             [Body1 EXCEPT !.title = Undefined], [Body2 EXCEPT !.body = <<>>]}

\* createBlog alone, by two users
NextCreate ==
  CreateBlog(ValidHeaders, CreateInputs, MaxListBlogs)

SpecCreate == InitBlog /\ [][NextCreate]_vars

\* bodies of createBlog in the write specification: a plain one, one whose
\* body is a JSON number with paths createBlog does not read, one without a
\* body
WriteCreates ==
  {Body1,
   [Body1 EXCEPT !.body = FortyTwo] @@ [reading_time |-> 9, state |-> "published"],
   [Body1 EXCEPT !.body = Undefined]}

\* bodies of updateBlog in the write specification
WriteUpdates ==
  {[NoUpdate EXCEPT !.tags = <<Tag>>],
   [NoUpdate EXCEPT !.body = FortyTwo] @@ [reading_time |-> 9, read_count |-> 5, author |-> 2],
   [NoUpdate EXCEPT !.title = <<" ", "c">>, !.description = <<>>, !.body = Words(201)],
   [NoUpdate EXCEPT !.title = <<>>, !.body = <<>>],
   [NoUpdate EXCEPT !.state = "Published", !.tags = <<Tag>>],
   [NoUpdate EXCEPT !.state = "published"],
   [NoUpdate EXCEPT !.state = "draft"]}

\* one author creating and updating blogs, one request at a time
SpecWrite ==
  InitBlog /\ [][\/ CreateBlog(HeadersOf(1), WriteCreates, MaxBlogs)
                 \/ UpdateBlogBegin(1, HeadersOf(1), WriteUpdates)
                 \/ UpdateBlogSave(1)]_vars

\* arguments of calculateReadingTime: texts of 1 .. MaxWords words, texts
\* with whitespace around and between the words, whitespace alone, the
\* empty string, and values that are not strings
Texts ==
  {Words(n) : n \in 1..MaxWords}
    \cup {Words(n) \o <<" ">> : n \in {1, 200, 400}}
    \cup {<<"\n">> \o Words(200) \o <<" ", "\t", "w">>, <<"w", " ", " ", "w">>,
          <<" ">>, <<"\t", " ">>, <<>>,
          Undefined, <<"null">>, FortyTwo, <<"number", "0">>,
          <<"boolean", "t", "r", "u", "e">>}

\* a call of calculateReadingTime(req.text) and its return value
Estimate ==
  /\ req.op = "calculateReadingTime" /\ req.phase = 0
  /\ req' = [req EXCEPT !.phase = 1]
  /\ resp' = [op |-> "calculateReadingTime", minutes |-> CalculateReadingTime(req.text)]
  /\ log' = <<>>
  /\ UNCHANGED <<users, blogs, nextBlogId, tokens, now, inflight, views>>

\* the estimator called on each argument
SpecEstimate ==
  /\ req \in {[op |-> "calculateReadingTime", phase |-> 0, text |-> t] : t \in Texts}
  /\ resp = NoResponse
  /\ log = <<>>
  /\ views = 0
  /\ users = <<>> /\ blogs = <<>> /\ nextBlogId = 1 /\ tokens = {} /\ now = 0
  /\ inflight = [s \in Slots |-> Idle]
  /\ [][Estimate]_vars

\* a blog that its author publishes and withdraws and that is fetched, one
\* request at a time
SpecViews ==
  InitBlog /\ [][\/ CreateBlog(HeadersOf(1), {Body1, Body2}, MaxBlogs)
                 \/ UpdateBlogBegin(1, HeadersOf(1), PublishBodies)
                 \/ UpdateBlogSave(1)
                 \/ GetBlogByIdBegin(1, MaxViews)
                 \/ GetBlogByIdSave(1)]_vars

\* a blog that its author publishes and that is fetched by requests whose
\* lookups and saves interleave
SpecRace ==
  InitBlog /\ [][\/ CreateBlog(HeadersOf(1), {Body1}, MaxBlogs)
                 \/ \E s \in Slots : UpdateBlogBegin(s, HeadersOf(1), PublishBodies)
                 \/ \E s \in Slots : UpdateBlogSave(s)
                 \/ \E s \in Slots : GetBlogByIdBegin(s, MaxViews)
                 \/ \E s \in Slots : GetBlogByIdSave(s)]_vars

\* two authors creating blogs and renaming them, the renames interleaved
SpecTitle ==
  InitBlog /\ [][\/ CreateBlog(ValidHeaders,
                               {Body1, Body2, [Body1 EXCEPT !.title = <<" ", "a">>]},
                               MaxListBlogs)
                 \/ \E s \in Slots :
                      UpdateBlogBegin(s, ValidHeaders,
                                      {[NoUpdate EXCEPT !.title = T1],
                                       [NoUpdate EXCEPT !.title = T2 \o <<" ">>]})
                 \/ \E s \in Slots : UpdateBlogSave(s)]_vars

\* two users creating, updating and deleting blogs, with request
\* bodies that name an author
SpecAuthor ==
  InitBlog /\ [][\/ CreateBlog(ValidHeaders,
                               {Body1 @@ [author |-> 2], Body2 @@ [author |-> 1]},
                               MaxBlogs)
                 \/ \E s \in BlogSlots :
                      UpdateBlogBegin(s, ValidHeaders,
                                      {[NoUpdate EXCEPT !.state = "published"] @@ [author |-> 2],
                                       [NoUpdate EXCEPT !.tags = <<Tag>>] @@ [author |-> 1]})
                 \/ \E s \in BlogSlots : UpdateBlogSave(s)
                 \/ \E s \in BlogSlots : DeleteBlogBegin(s, ValidHeaders)
                 \/ \E s \in BlogSlots : DeleteBlogFinish(s)]_vars

\* the i-th blog of a store filled through createBlog, updateBlog and
\* getBlogById: created at instant i by user 1 or 2, every fifth one still
\* a draft, fetched up to twice while published; the titles of the first
\* four differ in case and punctuation, the second has a long body, the
\* fourth has a tag
LibraryBlog(i) ==
  LET digit(d) == CHOOSE c \in Digits : DigitVal(c) = d
      numeral  == IF i < 10 THEN <<digit(i)>> ELSE <<digit(i \div 10), digit(i % 10)>>
      title    == CASE i = 1 -> <<"A", "b">>
                    [] i = 2 -> <<"a", ".", "b">>
                    [] i = 3 -> <<"a", "c", "b">>
                    [] i = 4 -> <<"x">>
                    [] OTHER -> <<"a", "b">> \o numeral
      body     == [title |-> title, description |-> Undefined,
                   tags |-> IF i = 4 THEN <<Tag>> ELSE Undefined,
                   body |-> IF i = 2 THEN Words(201) ELSE Words(1)]
  IN [NewBlog(i, body, IF i % 3 = 0 THEN 2 ELSE 1, i) EXCEPT
        !.state = IF i % 5 = 0 THEN "draft" ELSE "published",
        !.read_count = i % 3]

\* the state after the first n blogs of the library were stored
InitLibrary(sizes) ==
  /\ users = RegisteredUsers
  /\ \E n \in sizes : blogs = [i \in 1..n |-> LibraryBlog(i)] /\ nextBlogId = n + 1
  /\ tokens = {GenerateToken(1, 0), GenerateToken(1, ExpiresIn - 1),
               GenerateToken(2, ExpiresIn - 1)}
  /\ now = ExpiresIn + 1
  /\ inflight = [s \in Slots |-> Idle]
  /\ req = NoRequest
  /\ resp = NoResponse
  /\ log = <<>>
  /\ views = 0

\* the public listing paged over stores of 0 .. MaxPageBlogs blogs
SpecPage ==
  InitLibrary(0..MaxPageBlogs)
    /\ [][GetAllPublishedBlogs(
            [page : {Undefined, <<"1">>, <<"2">>, <<"3">>, <<"4">>, <<"0">>, <<"x">>},
             limit : {Undefined, <<"5">>, <<"1">>, <<"0">>},
             search : {Undefined}, orderBy : {""}, order : {""}])]_vars

\* the public listing searched over stores of 0 .. MaxPageBlogs blogs
SpecSearch ==
  InitLibrary(0..MaxPageBlogs)
    /\ [][GetAllPublishedBlogs(
            [page : {Undefined}, limit : {Undefined},
             search : {Undefined, <<>>, <<"b">>, <<"A", "B">>, <<"b", "a">>, <<"x">>,
                       <<"a", ".", "b">>, <<".">>},
             orderBy : {""}, order : {""}])]_vars

\* the public listing ordered over stores of 0 .. MaxSortBlogs blogs
SpecSort ==
  InitLibrary(0..MaxSortBlogs)
    /\ [][GetAllPublishedBlogs(
            [page : {Undefined, <<"2">>}, limit : {Undefined, <<"2">>},
             search : {Undefined},
             orderBy : {"", "read_count", "reading_time", "timestamp"},
             order : {"", "asc", "desc", "ASC"}])]_vars

\* the own listing of two users over stores of 0 .. MaxSortBlogs + 2 blogs,
\* with queries that also name an ordering
SpecOwn ==
  InitLibrary(0..(MaxSortBlogs + 2))
    /\ [][GetUserBlogs(ValidHeaders,
            [page : {Undefined, <<"2">>}, limit : {Undefined, <<"1">>},
             state : {"", "draft", "published", "Draft"},
             orderBy : {"", "read_count"}, order : {"", "asc"}])]_vars

\* the blog routes with requests that end in each kind of outcome: missing
\* and blank titles, duplicates, malformed and unknown ids, blogs of
\* another user, a negative page
SpecLog ==
  InitBlog /\ [][\/ CreateBlog(ValidHeaders,
                               {Body1, [Body1 EXCEPT !.title = Undefined],
                                [Body1 EXCEPT !.title = <<" ">>]},
                               MaxBlogs)
                 \/ \E s \in BlogSlots : UpdateBlogBegin(s, ValidHeaders, PublishBodies)
                 \/ \E s \in BlogSlots : UpdateBlogSave(s)
                 \/ \E s \in BlogSlots : GetBlogByIdBegin(s, MaxReads)
                 \/ \E s \in BlogSlots : GetBlogByIdSave(s)
                 \/ \E s \in BlogSlots : DeleteBlogBegin(s, ValidHeaders)
                 \/ \E s \in BlogSlots : DeleteBlogFinish(s)
                 \/ GetAllPublishedBlogs({DefaultQuery,
                                          [DefaultQuery EXCEPT !.page = <<"-", "1">>]})]_vars

\* a blog deleted by its author while updates and fetches of it are between
\* their lookup and their save
SpecGone ==
  InitBlog /\ [][\/ CreateBlog(HeadersOf(1), {Body1}, MaxBlogs)
                 \/ \E s \in Slots :
                      UpdateBlogBegin(s, HeadersOf(1), {[NoUpdate EXCEPT !.state = "published"]})
                 \/ \E s \in Slots : UpdateBlogSave(s)
                 \/ \E s \in Slots : GetBlogByIdBegin(s, MaxReads)
                 \/ \E s \in Slots : GetBlogByIdSave(s)
                 \/ \E s \in Slots : DeleteBlogBegin(s, HeadersOf(1))
                 \/ \E s \in Slots : DeleteBlogFinish(s)]_vars

\* both listings with page and limit parameters that are absent, not a
\* number, zero, negative and positive
SpecPaging ==
  InitLibrary(0..(MaxSortBlogs + 2))
    /\ [][\/ GetAllPublishedBlogs(
               [page : {Undefined, <<"x">>, <<"0">>, <<"-", "1">>, <<"2">>},
                limit : {Undefined, <<"x">>, <<"0">>, <<"-", "5">>, <<"1">>},
                search : {Undefined}, orderBy : {""}, order : {""}])
          \/ GetUserBlogs(ValidHeaders,
               [page : {Undefined, <<"x">>, <<"0">>, <<"-", "1">>, <<"2">>},
                limit : {Undefined, <<"x">>, <<"0">>, <<"-", "5">>, <<"1">>},
                state : {""}])]_vars

\* ------------------------------------------------------------------ claims
Published(bs) == {id \in DOMAIN bs : bs[id].state = "published"}

\* C1: every blog in a 200 response of getAllPublishedBlogs is a stored blog
\* whose state is published, whatever page, limit, search, orderBy and order
\* the query carries, and totalBlogs never counts more than the published
\* blogs (exactly them when there is no search).
C1_ListsOnlyPublished ==
  (resp.op = "getAllPublishedBlogs" /\ resp.status = 200) =>
    /\ \A k \in DOMAIN resp.data.blogs :
         /\ resp.data.blogs[k].state = "published"
         /\ resp.data.blogs[k]._id \in Published(blogs)
    /\ resp.data.pagination.totalBlogs <= Cardinality(Published(blogs))
    /\ Falsy(req.query.search) =>
         resp.data.pagination.totalBlogs = Cardinality(Published(blogs))

\* a listing that returned a blog while the store also held a draft
C1_Witness ==
  /\ resp.op = "getAllPublishedBlogs" /\ resp.status = 200
  /\ Len(resp.data.blogs) >= 1
  /\ \E id \in DOMAIN blogs : blogs[id].state = "draft"

NotFoundBody(op) ==
  [op |-> op, by |-> op, status |-> 404, success |-> FALSE,
   message |-> "Blog not found", data |-> NoData]

WithoutDrafts(bs) == [id \in Published(bs) |-> bs[id]]

\* the lookup step of a getBlogById request on a well-formed id
C2_Step ==
  (req'.op = "getBlogById" /\ req'.phase = 1 /\ req'.id # BadId) =>
    /\ (req'.id \in DOMAIN blogs /\ blogs[req'.id].state = "draft") =>
         resp' = NotFoundBody("getBlogById") /\ blogs' = blogs /\ inflight' = inflight
    /\ req'.id \notin DOMAIN blogs =>
         resp' = NotFoundBody("getBlogById") /\ blogs' = blogs /\ inflight' = inflight

\* C2: getBlogById on the id of a draft blog sends the same response (404,
\* success false, 'Blog not found') as on a well-formed id that matches no
\* blog and leaves the store as it is; what the lookup finds for any id is
\* the same in the store and in the store without its drafts.
C2_DraftIsNotFound ==
  /\ [](\A id \in IdParams :
          GetBlogByIdLookup(blogs, id) = GetBlogByIdLookup(WithoutDrafts(blogs), id))
  /\ [][C2_Step]_vars

\* a getBlogById on a stored draft that was answered 404
C2_Witness ==
  /\ req.op = "getBlogById" /\ req.phase = 1
  /\ req.id \in DOMAIN blogs /\ blogs[req.id].state = "draft"
  /\ resp.status = 404

OwnedOps == {"updateBlog", "deleteBlog"}

\* the request reached its controller as an authenticated user
Authenticated(r) == "user" \in DOMAIN r

\* C3: updateBlog or deleteBlog on an existing blog by an authenticated user
\* who is not its author is answered 403 and leaves the blog, and every
\* other blog, unchanged whatever the request body carries; the request
\* does not go on to a save.
C3_NonOwnerForbidden ==
  [][(/\ req'.op \in OwnedOps /\ req'.phase = 1 /\ Authenticated(req')
      /\ req'.id \in DOMAIN blogs
      /\ blogs[req'.id].author # req'.user)
       => /\ resp'.status = 403 /\ resp'.success = FALSE
          /\ blogs' = blogs
          /\ inflight' = inflight]_vars

\* an update carrying a new state, sent by another user than the author
C3_Witness ==
  /\ req.op = "updateBlog" /\ req.phase = 1 /\ Authenticated(req)
  /\ req.body.state = "published"
  /\ req.id \in DOMAIN blogs /\ blogs[req.id].author # req.user
  /\ blogs[req.id].state = "draft"
  /\ resp.status = 403

\* C4: updateBlog or deleteBlog on a well-formed id that matches no blog is
\* answered 404 'Blog not found' for every authenticated caller, never 403,
\* and leaves the store unchanged.
C4_NotFoundBeforeForbidden ==
  [][(/\ req'.op \in OwnedOps /\ req'.phase = 1 /\ Authenticated(req')
      /\ req'.id # BadId /\ req'.id \notin DOMAIN blogs)
       => /\ resp' = NotFoundBody(req'.op)
          /\ blogs' = blogs
          /\ inflight' = inflight]_vars

\* a delete of an id that matches no blog, by a user who owns a stored blog
C4_Witness ==
  /\ req.op = "deleteBlog" /\ req.phase = 1 /\ Authenticated(req)
  /\ req.id # BadId /\ req.id \notin DOMAIN blogs
  /\ \E id \in DOMAIN blogs : blogs[id].author = req.user
  /\ resp.status = 404

\* the ids of the blogs that were created and are no longer stored
Deleted == (1..(nextBlogId - 1)) \ DOMAIN blogs

IsListing(r) == r.status = 200 /\ r.op \in {"getAllPublishedBlogs", "getUserBlogs"}

C5_Step ==
  /\ (req'.op = "deleteBlog" /\ resp'.status = 200) => req'.id \notin DOMAIN blogs'
  /\ \A id \in Deleted : id \notin DOMAIN blogs'
  /\ (/\ req'.op \in {"getBlogById", "updateBlog", "deleteBlog"} /\ req'.phase = 1
      /\ "id" \in DOMAIN req' /\ req'.id \in Deleted)
       => resp' = NotFoundBody(req'.op)

\* C5: a deleteBlog answered 200 leaves no blog with that id; a deleted id
\* never comes back; every getBlogById, updateBlog and deleteBlog sent
\* after the deletion for that id is answered 404; no public or owner
\* listing contains a deleted blog.
C5_DeletedStaysDeleted ==
  /\ [](IsListing(resp) =>
          \A k \in DOMAIN resp.data.blogs : resp.data.blogs[k]._id \notin Deleted)
  /\ [][C5_Step]_vars

\* an update sent for a blog that its author had deleted, answered 404
C5_Witness ==
  /\ req.op = "updateBlog" /\ req.phase = 1 /\ Authenticated(req)
  /\ req.id \in Deleted
  /\ resp.status = 404

\* the headers authenticate must turn away: none, nothing after 'Bearer', a
\* token that is malformed or not signed by the server, an expired token
NoCredential(header, t) ==
  \/ header = <<>>
  \/ header = <<"Bearer">>
  \/ /\ Len(header) = 2
     /\ \/ header[2] = GarbageToken
        \/ header[2] \in ForgedTokens
        \/ header[2] \in tokens /\ t > header[2].exp

\* C6: a request to createBlog, getUserBlogs, updateBlog, deleteBlog or
\* getCurrentUser with no Authorization header, no token after 'Bearer', an
\* invalid token or an expired token is answered 401 by authenticate; the
\* controller does not run and nothing stored changes.
C6_ProtectedRoutes ==
  [][(/\ req'.op \in {"createBlog", "getUserBlogs", "updateBlog", "deleteBlog",
                      "getCurrentUser"}
      /\ req'.phase = 1
      /\ NoCredential(req'.header, now))
       => /\ resp'.status = 401 /\ resp'.success = FALSE
          /\ resp'.by = "authenticate"
          /\ ~Authenticated(req')
          /\ UNCHANGED <<users, blogs, nextBlogId, tokens, inflight>>]_vars

\* a delete of a stored blog sent with its author's expired token
C6_Witness ==
  /\ req.op = "deleteBlog" /\ req.phase = 1
  /\ Len(req.header) = 2 /\ req.header[2] \in tokens /\ now > req.header[2].exp
  /\ \E id \in DOMAIN blogs : blogs[id].author = req.header[2].userId
  /\ resp.status = 401

OneHour == 60 * 60

ExpiredBody == [next |-> FALSE, status |-> 401, message |-> "Token expired. Please login again."]
InvalidBody == [next |-> FALSE, status |-> 401, message |-> "Invalid token."]

\* C7: at every clock value before its issue time + 1 hour authenticate
\* accepts a token that signup or login issued, at every clock value after
\* it rejects the token with 401 'Token expired. Please login again.'; a
\* malformed or wrongly signed token is rejected with 401 'Invalid token.',
\* a different message.
C7_TokenLifetime ==
  /\ \A tk \in tokens :
       LET a == Authenticate(<<"Bearer", tk>>, users, now) IN
       /\ now < tk.iat + OneHour => a.next /\ a.user._id = tk.userId
       /\ now > tk.iat + OneHour => a = ExpiredBody
  /\ \A tk \in ForgedTokens \cup {GarbageToken} :
       Authenticate(<<"Bearer", tk>>, users, now) = InvalidBody
  /\ ExpiredBody.message # InvalidBody.message

\* getCurrentUser answered 'Token expired' to a token issued more than an
\* hour before, while another issued token is still accepted
C7_Witness ==
  /\ req.op = "getCurrentUser" /\ Len(req.header) = 2 /\ req.header[2] \in tokens
  /\ now > req.header[2].iat + OneHour
  /\ resp.status = 401 /\ resp.message = "Token expired. Please login again."
  /\ \E tk \in tokens : tk.iat > 0 /\ now < tk.iat + OneHour

\* the credentials of a login body match a stored user
CredentialsMatch(us, body) ==
  \E i \in DOMAIN us :
    /\ us[i].email = ToLowerCase(body.email)
    /\ BcryptCompare(body.password, us[i].password)

Registered(us, email) == \E i \in DOMAIN us : us[i].email = ToLowerCase(email)

\* C8: a login with an email and a password that match no stored user is
\* answered 401, success false, 'Invalid email or password' with no data,
\* the same response whether the email is registered or not, and issues no
\* token.
C8_LoginFailureUniform ==
  /\ []((/\ req.op = "login"
         /\ ~Falsy(req.body.email) /\ ~Falsy(req.body.password)
         /\ ~CredentialsMatch(users, req.body))
          => resp = [op |-> "login", by |-> "login", status |-> 401, success |-> FALSE,
                     message |-> "Invalid email or password", data |-> NoData])
  /\ [][(req'.op = "login" /\ resp'.status # 200) => tokens' = tokens]_vars

\* a login with a registered email and a wrong password, answered 401
C8_Witness ==
  /\ req.op = "login" /\ ~Falsy(req.body.password)
  /\ Registered(users, req.body.email)
  /\ ~CredentialsMatch(users, req.body)
  /\ resp.status = 401

C9_Step ==
  (req'.op = "signup" /\ Registered(users, req'.body.email))
    => /\ resp'.status = 400 /\ resp'.success = FALSE
       /\ resp'.data = NoData
       /\ users' = users /\ tokens' = tokens

\* C9: no two stored users have the same lower-cased email, also when
\* signup requests interleave; a signup whose email equals a stored user's
\* email up to letter case is answered 400, stores no user and issues no
\* token.
C9_UniqueEmail ==
  /\ [](\A i, j \in DOMAIN users :
          i # j => ToLowerCase(users[i].email) # ToLowerCase(users[j].email))
  /\ [][C9_Step]_vars

\* a signup that passed the findOne check and was refused by the unique
\* index at save, its email differing in case from the stored one
C9_Witness ==
  /\ req.op = "signup" /\ req.phase = 2
  /\ Registered(users, req.body.email)
  /\ req.body.email # ToLowerCase(req.body.email)
  /\ resp.status = 400 /\ resp.by = "errorHandler"

\* the user records a response carries
UsersIn(r) ==
  IF r.data.kind \in {"auth", "user"} THEN {r.data.user}
  ELSE IF r.data.kind = "blog" THEN {r.data.blog.author}
  ELSE IF r.data.kind = "list"
    THEN {r.data.blogs[k].author : k \in DOMAIN r.data.blogs}
  ELSE {}

\* the blog records a response carries
BlogsIn(r) ==
  IF r.data.kind = "blog" THEN {r.data.blog}
  ELSE IF r.data.kind \in {"list", "ownlist"}
    THEN {r.data.blogs[k] : k \in DOMAIN r.data.blogs}
  ELSE {}

\* passwords as clients supply them and as the store holds them
SecretValues ==
  SignupPasswords \cup LoginPasswords \cup {users[i].password : i \in DOMAIN users}

C10_Step ==
  (req'.op = "signup" /\ resp'.status = 201) =>
    /\ users'[Len(users')].password # req'.body.password
    /\ \E salt \in Salts :
         users'[Len(users')].password = BcryptHash(req'.body.password, salt)

\* C10: no response carries a password path or a value equal to a
\* password or a stored hash, in its user, in a populated author or in a
\* blog; every stored password is a salted hash of the password supplied at
\* signup and differs from it.
C10_NoPasswordLeak ==
  /\ [](/\ \A u \in UsersIn(resp) :
             /\ "password" \notin DOMAIN u
             /\ \A f \in DOMAIN u \ {"_id"} : u[f] \notin SecretValues
        /\ \A b \in BlogsIn(resp) : "password" \notin DOMAIN b
        /\ \A i \in DOMAIN users :
             /\ users[i].password \notin SignupPasswords
             /\ \E p \in SignupPasswords, salt \in Salts :
                  users[i].password = BcryptHash(p, salt))
  /\ [][C10_Step]_vars

\* a created blog returned with its populated author
C10_Witness ==
  /\ resp.op = "createBlog" /\ resp.status = 201
  /\ resp.data.blog.author.email = users[resp.data.blog.author._id].email

C11_Step ==
  (req'.op = "createBlog" /\ Authenticated(req')) =>
    /\ IF resp'.status = 201
         THEN LET id == resp'.data.blog._id IN
              /\ id \notin DOMAIN blogs
              /\ DOMAIN blogs' = DOMAIN blogs \cup {id}
              /\ \A j \in DOMAIN blogs : blogs'[j] = blogs[j]
              /\ blogs'[id].state = "draft"
              /\ blogs'[id].author = req'.user
              /\ blogs'[id].read_count = 0
              /\ req'.body.tags = Undefined => blogs'[id].tags = <<>>
         ELSE blogs' = blogs
    /\ (req'.body.title \in {Undefined, <<>>} \/ req'.body.body \in {Undefined, <<>>})
         => resp'.status = 400 /\ resp'.success = FALSE /\ blogs' = blogs

\* C11: a createBlog answered 201 adds exactly one blog, whose state is
\* draft whatever state, author, read_count or reading_time the request body
\* carries, whose author is the authenticated caller, whose read_count is 0
\* and whose tags are the empty list when the body has none; a createBlog
\* whose title or body is missing or empty is answered 400 and stores
\* nothing.
C11_CreateDefaults == [][C11_Step]_vars

\* a blog created from a body that carried state 'published' and another
\* author, stored as a draft of the caller
C11_Witness ==
  /\ req.op = "createBlog" /\ resp.status = 201
  /\ "state" \in DOMAIN req.body /\ req.body.state = "published"
  /\ req.body.author # req.user
  /\ blogs[resp.data.blog._id].state = "draft"
  /\ blogs[resp.data.blog._id].author = req.user

\* C12: every stored blog's reading_time is the estimator applied to its
\* stored body and is at least 1, in every state that createBlog and
\* updateBlog requests served one after the other can reach.
C12_ReadingTimeOfBody ==
  \A id \in DOMAIN blogs :
    /\ blogs[id].reading_time = CalculateReadingTime(blogs[id].body)
    /\ blogs[id].reading_time >= 1

\* the number of maximal runs of non-whitespace characters of a text
Tokens(text) ==
  Cardinality({i \in DOMAIN text :
                 text[i] \notin Whitespace /\ (i = 1 \/ text[i - 1] \in Whitespace)})

\* C13: calculateReadingTime(text) = max(1, ceil(w / 200)) for every
\* non-empty string text with w whitespace-separated tokens, and 0 for the
\* empty string and for every value that is not a string; 1 word gives 1,
\* 200 words give 1, 201 words give 2 and 400 words give 2.
C13_ReadingTime ==
  /\ resp.op = "calculateReadingTime" =>
       resp.minutes =
         IF IsString(req.text) /\ req.text # <<>>
           THEN LET m == CeilDiv(Tokens(req.text), 200) IN IF m < 1 THEN 1 ELSE m
           ELSE 0
  /\ CalculateReadingTime(Words(1)) = 1
  /\ CalculateReadingTime(Words(200)) = 1
  /\ CalculateReadingTime(Words(201)) = 2
  /\ CalculateReadingTime(Words(400)) = 2

\* the estimator returned 2 for a text of 201 words
C13_Witness ==
  /\ resp.op = "calculateReadingTime"
  /\ req.text = Words(201)
  /\ resp.minutes = 2

C14_Step ==
  req'.op = "getBlogById" =>
    IF req'.phase = 2 /\ resp'.status = 200
      THEN /\ req'.id \in DOMAIN blogs
           /\ blogs' = [blogs EXCEPT ![req'.id].read_count = @ + 1]
           /\ resp'.data.blog.read_count = blogs[req'.id].read_count + 1
      ELSE blogs' = blogs

\* C14: when requests run one at a time, every getBlogById answered 200
\* adds exactly 1 to the stored read_count of its blog and returns the new
\* count, so that N of them add N; a getBlogById answered 404 (or any other
\* status) changes no read_count; no other blog is touched.
C14_ReadCountSequential ==
  /\ [](Cardinality({s \in Slots : inflight[s] # Idle}) <= 1)
  /\ [][C14_Step]_vars

\* the third successful fetch of a blog, which left its read_count at 3
C14_Witness ==
  /\ req.op = "getBlogById" /\ req.phase = 2 /\ resp.status = 200
  /\ resp.data.blog.read_count = 3
  /\ blogs[req.id].read_count = 3

\* C15: the stored read_count of a blog never decreases: after every step,
\* of interleaved getBlogById requests included, it is greater than or
\* equal to what it was before the step.
C15_ReadCountMonotone ==
  [][\A id \in DOMAIN blogs \cap DOMAIN blogs' :
       blogs'[id].read_count >= blogs[id].read_count]_vars


C16_Step ==
  req'.op = "updateBlog" =>
    /\ DOMAIN blogs' = DOMAIN blogs
    /\ req'.phase = 1 => blogs' = blogs
    /\ \A id \in DOMAIN blogs :
         LET old == blogs[id]
             new == blogs'[id]
         IN
         IF req'.phase = 2 /\ id = req'.id
           THEN /\ new._id = old._id
                /\ new.author = old.author
                /\ new.read_count = old.read_count
                /\ new.timestamp = old.timestamp
                /\ \A f \in {"title", "description", "tags", "body"} :
                     req'.body[f] = Undefined => new[f] = old[f]
                /\ req'.body.body = Undefined => new.reading_time = old.reading_time
                /\ req'.body.state = "" => new.state = old.state
           ELSE new = old

\* C16: updateBlog is a partial update: each of title, description, body,
\* tags and state that is absent from the request keeps its stored value
\* (reading_time with body), author, read_count, the creation timestamp
\* and _id are never changed by it, and no other blog is touched.
C16_PartialUpdate == [][C16_Step]_vars

\* a saved update of the tags alone, on a blog whose description and body
\* had been set by an earlier update
C16_Witness ==
  /\ req.op = "updateBlog" /\ req.phase = 2 /\ resp.status = 200
  /\ req.body = [NoUpdate EXCEPT !.tags = <<Tag>>]
  /\ blogs[req.id].tags = <<Tag>>
  /\ blogs[req.id].description = <<>>
  /\ blogs[req.id].title = <<"c">>
  /\ blogs[req.id].reading_time = 2


C17_Step ==
  (req'.op = "updateBlog" /\ req'.phase = 2 /\ resp'.status = 200) =>
    LET b == req'.body
        old == blogs[req'.id]
        new == blogs'[req'.id]
    IN
    /\ new.title = IF b.title \in {Undefined, <<>>} THEN old.title
                   ELSE Trim(CastString(b.title))
    /\ new.body = IF b.body \in {Undefined, <<>>} THEN old.body
                  ELSE CastString(b.body)
    /\ b.description # Undefined => new.description = Trim(CastString(b.description))
    /\ b.tags # Undefined => new.tags = b.tags

C18_Step ==
  (/\ req'.op = "updateBlog" /\ req'.phase = 2
   /\ req'.body.state \notin {"", "draft", "published"}) =>
    /\ resp'.status = 200
    /\ blogs'[req'.id].state = blogs[req'.id].state
    /\ resp'.data.blog.state = blogs[req'.id].state
    /\ req'.body.tags # Undefined => blogs'[req'.id].tags = req'.body.tags

\* C18: an updateBlog by the author whose state is neither 'draft' nor
\* 'published' is answered 200, leaves the stored state as it was and
\* applies the other fields it provides; the state of every stored blog is
\* 'draft' or 'published' in every reachable state.
C18_InvalidStateIgnored ==
  /\ [](\A id \in DOMAIN blogs : blogs[id].state \in {"draft", "published"})
  /\ [][C18_Step]_vars

\* a saved update naming the state 'Published' with new tags, on a blog
\* that was published before and still is
C18_Witness ==
  /\ req.op = "updateBlog" /\ req.phase = 2 /\ resp.status = 200
  /\ req.body.state = "Published"
  /\ blogs[req.id].state = "published"
  /\ blogs[req.id].tags = <<Tag>>


C19_Step ==
  (/\ req'.op = "updateBlog" /\ "id" \in DOMAIN req'
   /\ req'.id \in DOMAIN blogs /\ blogs[req'.id].author = req'.user
   /\ req'.body.state \in {"draft", "published"}) =>
    IF req'.phase = 1
      THEN resp' = NoResponse /\ inflight'[1].op = "updateBlog"
      ELSE /\ resp'.status = 200
           /\ blogs'[req'.id].state = req'.body.state
           /\ resp'.data.blog.state = req'.body.state

\* C19: with requests served one at a time, every updateBlog by the author
\* of a stored blog with state 'draft' or 'published' passes the checks, is
\* answered 200 and leaves the stored state equal to the requested one,
\* whatever the state was before (draft or published, the same or the
\* other one), any number of times.
C19_StateTransitions ==
  /\ [](Cardinality({s \in Slots : inflight[s] # Idle}) <= 1)
  /\ [][C19_Step]_vars

\* a blog withdrawn to draft by its author after it had been published and
\* fetched twice
C19_Witness ==
  /\ req.op = "updateBlog" /\ req.phase = 2 /\ resp.status = 200
  /\ req.body.state = "draft"
  /\ blogs[req.id].state = "draft"
  /\ blogs[req.id].read_count = 2


C20_Step ==
  LET Duplicate == resp'.status = 400 /\ resp'.message = "title already exists"
                   /\ blogs' = blogs
  IN
  /\ (/\ req'.op = "createBlog" /\ "body" \in DOMAIN req'
      /\ \E j \in DOMAIN blogs : blogs[j].title = Trim(req'.body.title))
       => Duplicate
  /\ \A s \in Slots :
       (/\ inflight[s].op = "updateBlog" /\ inflight'[s] = Idle
        /\ inflight[s].doc.title # inflight[s].loaded.title
        /\ \E j \in DOMAIN blogs \ {inflight[s].id} :
             blogs[j].title = inflight[s].doc.title)
         => Duplicate

\* C20: in every reachable state no two stored blogs, of one author or of
\* two, have the same title; a createBlog, or an updateBlog that changes
\* the title, whose (trimmed) title is the title of another stored blog at
\* the time of its write is answered 400 'title already exists' and leaves
\* the store as it was, also when the requests interleave.
C20_TitleUnique ==
  /\ [](\A i, j \in DOMAIN blogs : blogs[i].title = blogs[j].title => i = j)
  /\ [][C20_Step]_vars

\* a rename refused as a duplicate while another update is in flight, with
\* blogs of two authors stored
C20_Witness ==
  /\ req.op = "updateBlog" /\ req.phase = 2
  /\ resp.status = 400 /\ resp.message = "title already exists"
  /\ \E s \in Slots : inflight[s].op = "updateBlog"
  /\ \E i, j \in DOMAIN blogs : blogs[i].author # blogs[j].author


C21_Step ==
  \A id \in DOMAIN blogs' :
    IF id \in DOMAIN blogs
      THEN blogs'[id].author = blogs[id].author
      ELSE /\ req'.op = "createBlog" /\ resp'.status = 201
           /\ id = nextBlogId /\ nextBlogId' = nextBlogId + 1
           /\ blogs'[id].author = req'.user

\* C21: the author of a stored blog never changes: a blog enters the store
\* by a createBlog answered 201, under an _id that was never used before
\* and with the caller as its author, and no later step of any request by
\* any user changes the author of a blog that stays in the store.
C21_AuthorImmutable == [][C21_Step]_vars

\* a blog of user 1 after a successful update by user 1 whose body named
\* user 2 as the author
C21_Witness ==
  /\ req.op = "updateBlog" /\ req.phase = 2 /\ resp.status = 200
  /\ req.user = 1 /\ req.body.author = 2
  /\ blogs[req.id].author = 1


\* C22: a public listing with effective page p >= 1 and limit l >= 1 over
\* T published blogs is answered 200 and reports totalBlogs = T,
\* totalPages = ceil(T / l), currentPage = p and limit = l, and returns
\* exactly min(l, max(0, T - (p - 1) * l)) blogs; for l = 5 and T = 12
\* totalPages is 3 and page 3 returns exactly 2 blogs.
C22_Pagination ==
  req.op = "getAllPublishedBlogs" =>
    LET number(s, d) == CASE s = <<"1">> -> 1 [] s = <<"2">> -> 2 [] s = <<"3">> -> 3
                          [] s = <<"4">> -> 4 [] s = <<"5">> -> 5 [] OTHER -> d
        p == number(req.query.page, 1)
        l == number(req.query.limit, 20)
        T == Cardinality(Published(blogs))
        rest == T - (p - 1) * l
    IN
    /\ resp.status = 200
    /\ resp.data.pagination.totalBlogs = T
    /\ resp.data.pagination.currentPage = p
    /\ resp.data.pagination.limit = l
    /\ \E k \in 0..T : /\ resp.data.pagination.totalPages = k
                       /\ k * l >= T /\ (k - 1) * l < T
    /\ Len(resp.data.blogs) = (IF rest < 0 THEN 0 ELSE IF rest < l THEN rest ELSE l)
    /\ (l = 5 /\ T = 12) =>
         /\ resp.data.pagination.totalPages = 3
         /\ p = 3 => Len(resp.data.blogs) = 2

\* page 3 of 12 published blogs at 5 a page: 2 blogs, 3 pages
C22_Witness ==
  /\ req.op = "getAllPublishedBlogs"
  /\ req.query.page = <<"3">> /\ req.query.limit = <<"5">>
  /\ Cardinality(Published(blogs)) = 12
  /\ Len(resp.data.blogs) = 2
  /\ resp.data.pagination.totalPages = 3


\* C23: with a non-empty search the public listing matches exactly the
\* published blogs whose title, or one of whose tags, contains the search
\* string as a case-insensitive literal substring; with an empty or absent
\* search it matches every published blog.
C23_SearchLiteral ==
  (req.op = "getAllPublishedBlogs" /\ resp.status = 200) =>
    LET s == req.query.search
        contains(text) ==
          \E k \in 0..(Len(text) - Len(s)) :
            \A i \in 1..Len(s) : LowerChar(text[k + i]) = LowerChar(s[i])
        expected ==
          IF s \in {Undefined, <<>>} THEN Published(blogs)
          ELSE {id \in Published(blogs) :
                  \/ contains(blogs[id].title)
                  \/ \E t \in DOMAIN blogs[id].tags : contains(blogs[id].tags[t])}
    IN
    /\ resp.data.pagination.totalBlogs = Cardinality(expected)
    /\ {resp.data.blogs[k]._id : k \in DOMAIN resp.data.blogs} = expected


\* C24: the page of a public listing is the slice (page - 1) * limit + 1 ..
\* page * limit of the published blogs sorted by the requested orderBy path
\* (read_count, reading_time or timestamp; timestamp when absent),
\* ascending when order is exactly 'asc' and descending for every other or
\* absent value: the k-th returned blog has at most skip + k - 1 blogs
\* strictly before it in that order and at least skip + k blogs not after it.
C24_Ordering ==
  (req.op = "getAllPublishedBlogs" /\ resp.status = 200) =>
    LET path == IF req.query.orderBy = "" THEN "timestamp" ELSE req.query.orderBy
        dir  == IF req.query.order = "asc" THEN 1 ELSE -1
        skip == IF req.query.page = <<"2">> /\ req.query.limit = <<"2">> THEN 2
                ELSE IF req.query.page = <<"2">> THEN 20 ELSE 0
        page == resp.data.blogs
    IN
    /\ \A k \in DOMAIN page :
         LET before == {id \in Published(blogs) : dir * blogs[id][path] < dir * page[k][path]}
             upto   == {id \in Published(blogs) : dir * blogs[id][path] <= dir * page[k][path]}
         IN /\ page[k]._id \in Published(blogs)
            /\ page[k][path] = blogs[page[k]._id][path]
            /\ Cardinality(before) <= skip + k - 1
            /\ skip + k <= Cardinality(upto)
    /\ \A k, j \in DOMAIN page : k < j => page[k]._id # page[j]._id

\* a first page of two with orderBy read_count and order 'ASC' (not exactly
\* 'asc', hence descending) that starts with the most-read blog
C24_Witness ==
  /\ req.op = "getAllPublishedBlogs" /\ resp.status = 200
  /\ req.query.orderBy = "read_count" /\ req.query.order = "ASC"
  /\ req.query.limit = <<"2">> /\ req.query.page = Undefined
  /\ Cardinality(Published(blogs)) = 4
  /\ Len(resp.data.blogs) = 2
  /\ resp.data.blogs[1].read_count = 2
  /\ resp.data.blogs[2].read_count = 1


\* C25: a getUserBlogs answered 200 returns only stored blogs whose author
\* is the caller, drafts included; its state filter restricts the matches
\* only when it is exactly 'draft' or 'published' (any other value matches
\* all of the caller's blogs); the page is the slice of the matches in
\* descending order of creation timestamp, whatever orderBy and order the
\* query names.
C25_OwnBlogs ==
  (req.op = "getUserBlogs" /\ resp.status = 200) =>
    LET q     == req.query
        own   == {id \in DOMAIN blogs :
                    /\ blogs[id].author = req.user
                    /\ q.state \in {"draft", "published"} => blogs[id].state = q.state}
        limit == IF q.limit = <<"1">> THEN 1 ELSE 20
        skip  == IF q.page = <<"2">> THEN limit ELSE 0
        page  == resp.data.blogs
    IN
    /\ resp.data.pagination.totalBlogs = Cardinality(own)
    /\ Len(page) = (IF Cardinality(own) - skip < 0 THEN 0
                    ELSE IF Cardinality(own) - skip < limit THEN Cardinality(own) - skip
                    ELSE limit)
    /\ \A k \in DOMAIN page :
         /\ page[k]._id \in own
         /\ page[k] = blogs[page[k]._id]
         /\ Cardinality({id \in own : blogs[id].timestamp > page[k].timestamp}) <= skip + k - 1
         /\ skip + k <= Cardinality({id \in own : blogs[id].timestamp >= page[k].timestamp})

\* user 1's listing with the state filter 'Draft' and orderBy read_count
\* ascending: a draft and the published blogs, newest first
C25_Witness ==
  /\ req.op = "getUserBlogs" /\ resp.status = 200 /\ req.user = 1
  /\ req.query.state = "Draft" /\ req.query.orderBy = "read_count" /\ req.query.order = "asc"
  /\ Len(resp.data.blogs) = 4
  /\ resp.data.blogs[1].state = "draft"
  /\ resp.data.blogs[2].state = "published"
  /\ resp.data.blogs[1].timestamp > resp.data.blogs[2].timestamp
  /\ resp.data.blogs[1].read_count > resp.data.blogs[2].read_count
  /\ \E id \in DOMAIN blogs : blogs[id].author = 2


\* C26: a request answered with a validation (400), ownership (403) or
\* not-found (404) outcome has written no ERROR-level log entry, and a
\* request answered with an internal failure (500) has written one by the
\* time its response is sent.
C26_ErrorLog ==
  /\ resp.status \in {400, 403, 404} => log = <<>>
  /\ resp.status >= 500 => log # <<>>


\* C27: when N getBlogById requests on one blog that starts with read_count
\* 0 have been answered 200, in whatever interleaving of their reads and
\* saves, the stored read_count lies between 1 and N: increments can be
\* lost, but the count never exceeds initial + N and is never below
\* initial + 1.
C27_ReadCountBounds ==
  \A id \in DOMAIN blogs :
    IF views = 0 THEN blogs[id].read_count = 0
    ELSE 1 <= blogs[id].read_count /\ blogs[id].read_count <= views

\* two overlapping fetches, both answered 200, that left read_count at 1
C27_Witness ==
  /\ views = 2
  /\ \A s \in Slots : inflight[s] = Idle
  /\ req.op = "getBlogById" /\ resp.status = 200
  /\ blogs[req.id].read_count = 1


\* C28: the read_count of a blog changes only while its stored state is
\* published: no step, in any interleaving of getBlogById with the
\* author's updateBlog, changes the read_count of a blog that is stored as
\* a draft when the step is taken.
C28_DraftNotCounted ==
  [][\A id \in DOMAIN blogs \cap DOMAIN blogs' :
       blogs[id].state = "draft" => blogs'[id].read_count = blogs[id].read_count]_vars


C29_Step ==
  /\ \A id \in Deleted : id \notin DOMAIN blogs'
  /\ \A s \in Slots :
       (/\ inflight[s].op \in {"updateBlog", "getBlogById"} /\ inflight'[s] = Idle
        /\ inflight[s].id \in Deleted)
         => /\ blogs' = blogs
            /\ resp'.status = 500 /\ resp'.success = FALSE

\* C29: a deleted blog is never brought back: the save of an updateBlog or
\* of a getBlogById that had loaded the blog before a deleteBlog removed it
\* fails, stores nothing and is not answered as a success, and no step puts
\* a blog back under an _id that was deleted.
C29_NoResurrection == [][C29_Step]_vars

\* the save of a fetch that had loaded a blog deleted since, refused
C29_Witness ==
  /\ req.op = "getBlogById" /\ req.phase = 2
  /\ resp.status = 500
  /\ req.id \in Deleted


\* C30: whatever the page and limit parameters of getAllPublishedBlogs and
\* getUserBlogs are (absent, not a number, zero, negative or positive), the
\* listing is served with a positive effective page and limit, 1 and 20
\* when the parameter is absent or does not parse: the offset is not
\* negative (the query is not refused) and the reported totalPages is not
\* negative.
C30_PositivePaging ==
  (req.op \in {"getAllPublishedBlogs", "getUserBlogs"} /\ "query" \in DOMAIN req) =>
    /\ resp.status = 200
    /\ resp.data.pagination.currentPage >= 1
    /\ resp.data.pagination.limit >= 1
    /\ resp.data.pagination.totalPages >= 0
    /\ req.query.page \in {Undefined, <<"x">>} => resp.data.pagination.currentPage = 1
    /\ req.query.limit \in {Undefined, <<"x">>} => resp.data.pagination.limit = 20
====
